---- MODULE Spec2Model ----
(***************************************************************************)
(* Orchestration core of agenty-python: the turn loop of Agent.run with    *)
(* its consecutive-tool governor, tool dispatch, restart-signal scan,      *)
(* conversation persistence across re-exec, and the model invocation       *)
(* layer (tool choice and retry loop).                                     *)
(*                                                                         *)
(* Spec        the turn loop (agent/base_agent.py) with the persisted file *)
(* SpecPersist save_conversation / load_conversation on drawn inputs       *)
(* SpecTool    execute_tool on drawn registries and tool names             *)
(* SpecLLM     run_inference (agent/llm.py) on drawn inputs                *)
(***************************************************************************)
EXTENDS Integers, Sequences, FiniteSets, TLC

(***************************************************************************)
(* Bounds of the exploration.                                              *)
(***************************************************************************)
\* the model is invoked only while the conversation has fewer turns
MaxTurns == 5
\* blocks in one response of the completion API
MaxBlocks == 2
\* responses of more than one block are drawn while the conversation has at
\* most this many turns
WideUntil == 1
\* longest run of ordinary tool calls in one response
MaxBatch == 10
\* times the operator starts the program again after it has exited
MaxRelaunch == 1

(***************************************************************************)
(* Strings of the program.                                                 *)
(***************************************************************************)
\* the persisted file conversation_context.pkl: absent, or its contents
NoFile == [exists |-> FALSE, data |-> <<>>]
\* the value None and a loaded conversation, as load_conversation returns them
None == [some |-> FALSE, val |-> <<>>]
Notice == "The program has restarted and is continuing execution automatically. Please continue from where you left off."
ToolNotFound == "tool not found"
NoHumanResponse == "Human did not provide a response."
\* json.dumps of restart_program's result
RestartPayload == "{\"message\": \"Program will restart.\", \"reason\": \"Reloading tools\", \"restart\": true, \"agent_initiated\": true}"
\* json.dumps of reset_context's result
ResetPayload == "{\"message\": \"Context file not found: conversation_context.pkl\", \"restart\": true, \"reset_context\": true}"
ResetPayloadDeleted == "{\"message\": \"Successfully deleted context file: conversation_context.pkl\", \"restart\": true, \"reset_context\": true}"
ResetPayloadError == "{\"message\": \"Error deleting context file: [Errno 13] Permission denied\", \"restart\": true, \"reset_context\": true}"
\* outputs an ordinary tool (file contents, command output) may return
PlainText == "plain text"
RestartOnly == "{\"restart\": true}"
JsonList == "[1, 2]"
JsonDict == "{\"ok\": true}"
Boom == "boom"
HumanText == "list files"
HumanAnswer == "yes"
ModelText == "Working..."

(***************************************************************************)
(* Turns and blocks.  A turn is {"role", "content"}; content is a string   *)
(* (kind "text") or a list of blocks (kind "blocks").                      *)
(***************************************************************************)
TextTurn(r, s) == [role |-> r, kind |-> "text", text |-> s, blocks |-> <<>>]

BlocksTurn(r, bs) == [role |-> r, kind |-> "blocks", text |-> "", blocks |-> bs]

TextBlock(s) == [type |-> "text", id |-> "", name |-> "", content |-> s]

ToolUse(i, n) == [type |-> "tool_use", id |-> i, name |-> n, content |-> ""]

ToolResult(i, c) == [type |-> "tool_result", id |-> i, name |-> "", content |-> c]

(***************************************************************************)
(* json.loads on the tool outputs above: the parsed object, a non-object   *)
(* value, or a decode error.                                               *)
(***************************************************************************)
JsonObject(r, rc, ai) == [kind |-> "dict", restart |-> r, reset_context |-> rc, agent_initiated |-> ai]

JsonLoads(s) ==
    CASE s = RestartPayload -> JsonObject(TRUE, FALSE, TRUE)
      [] s = ResetPayload -> JsonObject(TRUE, TRUE, FALSE)
      [] s = ResetPayloadDeleted -> JsonObject(TRUE, TRUE, FALSE)
      [] s = ResetPayloadError -> JsonObject(TRUE, TRUE, FALSE)
      [] s = RestartOnly -> JsonObject(TRUE, FALSE, FALSE)
      [] s = JsonDict -> JsonObject(FALSE, FALSE, FALSE)
      [] s = JsonList -> [kind |-> "list", restart |-> FALSE, reset_context |-> FALSE, agent_initiated |-> FALSE]
      [] OTHER -> [kind |-> "error", restart |-> FALSE, reset_context |-> FALSE, agent_initiated |-> FALSE]

(***************************************************************************)
(* pickle.dump / pickle.load of a conversation: the file is a stream of    *)
(* opcodes and strings (PROTO, then the list of turn dicts, then STOP);    *)
(* loading runs the stream back through a parser and fails on a stream     *)
(* that is truncated or malformed.                                         *)
(***************************************************************************)
RECURSIVE Concat(_)
Concat(ss) == IF ss = <<>> THEN <<>> ELSE Head(ss) \o Concat(Tail(ss))

\* a dump that writes every block as if it were a text block
M_DumpBlock(b) == <<"DICT", "type", "text", "text", b.content, "END">>

DumpBlock(b) ==
    CASE b.type = "text" -> <<"DICT", "type", "text", "text", b.content, "END">>
      [] b.type = "tool_use" -> <<"DICT", "type", "tool_use", "id", b.id, "name", b.name, "END">>
      [] OTHER -> <<"DICT", "type", "tool_result", "tool_use_id", b.id, "content", b.content, "END">>

DumpTurn(t) ==
    <<"DICT", "role", t.role, "content">>
    \o (IF t.kind = "text"
        THEN <<"STR", t.text>>
        ELSE <<"LIST">> \o Concat([i \in 1..Len(t.blocks) |-> DumpBlock(t.blocks[i])]) \o <<"END">>)
    \o <<"END">>

Dumps(conv) ==
    <<"PROTO", "LIST">> \o Concat([i \in 1..Len(conv) |-> DumpTurn(conv[i])]) \o <<"END", "STOP">>

At(s, i) == IF i \in 1..Len(s) THEN s[i] ELSE "EOF"

Parsed(v, n) == [ok |-> TRUE, val |-> v, next |-> n]

ParseError == [ok |-> FALSE, val |-> <<>>, next |-> 0]

ParseBlock(s, i) ==
    IF At(s, i) # "DICT" \/ At(s, i + 1) # "type" THEN ParseError
    ELSE CASE At(s, i + 2) = "text" /\ At(s, i + 3) = "text" /\ At(s, i + 5) = "END" /\ i + 5 <= Len(s)
                -> Parsed(TextBlock(s[i + 4]), i + 6)
           [] At(s, i + 2) = "tool_use" /\ At(s, i + 3) = "id" /\ At(s, i + 5) = "name"
              /\ At(s, i + 7) = "END" /\ i + 7 <= Len(s)
                -> Parsed(ToolUse(s[i + 4], s[i + 6]), i + 8)
           [] At(s, i + 2) = "tool_result" /\ At(s, i + 3) = "tool_use_id" /\ At(s, i + 5) = "content"
              /\ At(s, i + 7) = "END" /\ i + 7 <= Len(s)
                -> Parsed(ToolResult(s[i + 4], s[i + 6]), i + 8)
           [] OTHER -> ParseError

\* a parsed item in front of the parsed rest of its list
Cons(first, rest) ==
    IF ~first.ok \/ ~rest.ok THEN ParseError ELSE Parsed(<<first.val>> \o rest.val, rest.next)

RECURSIVE ParseBlocks(_, _)
BlocksFrom(b, s) == IF ~b.ok THEN ParseError ELSE Cons(b, ParseBlocks(s, b.next))

ParseBlocks(s, i) ==
    IF At(s, i) = "END" THEN Parsed(<<>>, i + 1) ELSE BlocksFrom(ParseBlock(s, i), s)

\* a turn whose content is the parsed list of blocks bs
TurnOfBlocks(role, bs, s) ==
    IF bs.ok /\ At(s, bs.next) = "END" THEN Parsed(BlocksTurn(role, bs.val), bs.next + 1) ELSE ParseError

ParseTurn(s, i) ==
    IF At(s, i) # "DICT" \/ At(s, i + 1) # "role" \/ At(s, i + 3) # "content" \/ i + 3 > Len(s)
    THEN ParseError
    ELSE CASE At(s, i + 4) = "STR" /\ At(s, i + 6) = "END" /\ i + 6 <= Len(s)
                -> Parsed(TextTurn(s[i + 2], s[i + 5]), i + 7)
           [] At(s, i + 4) = "LIST" -> TurnOfBlocks(s[i + 2], ParseBlocks(s, i + 5), s)
           [] OTHER -> ParseError

RECURSIVE ParseTurns(_, _)
TurnsFrom(t, s) == IF ~t.ok THEN ParseError ELSE Cons(t, ParseTurns(s, t.next))

ParseTurns(s, i) ==
    IF At(s, i) = "END" THEN Parsed(<<>>, i + 1) ELSE TurnsFrom(ParseTurn(s, i), s)

\* the stream must end with STOP right after the list
Stopped(r, s) == IF r.ok /\ At(s, r.next) = "STOP" /\ r.next = Len(s) THEN r ELSE ParseError

\* pickle.load: the conversation, or an exception (ok = FALSE)
Loads(s) ==
    IF At(s, 1) # "PROTO" \/ At(s, 2) # "LIST" THEN ParseError ELSE Stopped(ParseTurns(s, 3), s)

\* what a write that fails part-way leaves behind
Truncated(s) == SubSeq(s, 1, 1)

\* what load_conversation returns for the outcome of pickle.load
Unpickled(r) == IF r.ok THEN [some |-> TRUE, val |-> r.val] ELSE None

\* a file that exists and that open() refuses to read
Unreadable == [exists |-> TRUE, data |-> <<"EACCES">>]

\* a load that hands on whatever pickle.load had built when it failed
M_load_conversation(f) == IF ~f.exists THEN None ELSE [some |-> TRUE, val |-> Loads(f.data).val]

\* load_conversation: None when the file is missing, when open() raises or
\* when pickle.load raises
load_conversation(f) ==
    IF ~f.exists \/ f = Unreadable THEN None ELSE Unpickled(Loads(f.data))

\* a save that leaves out the turn appended last
M_save_conversation(conv, f, outcome) ==
    [returned |-> outcome = "ok",
     file |-> IF outcome = "ok" THEN [exists |-> TRUE, data |-> Dumps(SubSeq(conv, 1, Len(conv) - 1))] ELSE f]

\* save_conversation: True and the pickled file, or False when open() fails
\* (file untouched) or the write fails part-way (file truncated)
WriteOutcomes == {"ok", "open_fails", "write_fails"}

save_conversation(conv, f, outcome) ==
    CASE outcome = "ok" -> [returned |-> TRUE, file |-> [exists |-> TRUE, data |-> Dumps(conv)]]
      [] outcome = "open_fails" -> [returned |-> FALSE, file |-> f]
      [] OTHER -> [returned |-> FALSE, file |-> [exists |-> TRUE, data |-> Truncated(Dumps(conv))]]

\* an exit handler that does not look at the error-exit flag
M_cleanup_context_no_error_flag(f, restarting, error_exit, remove_ok) ==
    IF restarting \/ ~remove_ok THEN f ELSE NoFile

\* an exit handler that does not look at the restart flag
M_cleanup_context_no_restart_flag(f, restarting, error_exit, remove_ok) ==
    IF error_exit \/ ~remove_ok THEN f ELSE NoFile

\* an exit handler that looks at neither flag
M_cleanup_context_no_flags(f, restarting, error_exit, remove_ok) ==
    IF remove_ok THEN NoFile ELSE f

\* an exit handler that never removes the file
M_cleanup_context_keeps(f, restarting, error_exit, remove_ok) == f

\* cleanup_context, the atexit handler; os.remove may fail (caught and logged)
cleanup_context(f, restarting, error_exit, remove_ok) ==
    IF restarting \/ error_exit \/ ~remove_ok THEN f ELSE NoFile

\* cleanup_context reaches os.remove and os.remove raises
remove_raises(f, restarting, error_exit, remove_ok) ==
    f.exists /\ ~restarting /\ ~error_exit /\ ~remove_ok

\* log_error: the record is appended to error.txt unless the write fails
\* (caught and printed); recorded tells whether a record is there already
log_error(recorded, write_ok) == recorded \/ write_ok

(***************************************************************************)
(* Tools.  A registry is the list of tool names; what a tool's callable    *)
(* does on one call is a behaviour: it returns a string, or raises an      *)
(* exception of some class with str(e) = value.                            *)
(***************************************************************************)
\* exception classes that derive from Exception, and those that derive from
\* BaseException only
ExceptionClasses == {"ValueError", "RuntimeError", "OSError"}

BaseOnlyClasses == {"KeyboardInterrupt", "SystemExit"}

\* the registry Agent is constructed with in main()
AgentTools == <<"read_file", "list_files", "edit_file", "delete_file", "git_command",
                "restart_program", "reset_context", "ask_human", "calculator", "send_group_message">>

\* a registry that holds the team tools in either mode
M_get_tool_list(is_team_mode) ==
    <<"read_file", "list_files", "edit_file", "delete_file", "git_command", "command_line_tool",
      "restart_program", "reset_context", "create_tool", "graceful_shutdown", "task_tracker",
      "send_group_message", "send_agent_message", "wait", "report_suspicious_activity">>

\* get_tool_list: the registry of the refactored loop
get_tool_list(is_team_mode) ==
    <<"read_file", "list_files", "edit_file", "delete_file", "git_command", "command_line_tool",
      "restart_program", "reset_context", "create_tool", "graceful_shutdown", "task_tracker">>
    \o (IF is_team_mode
        THEN <<"send_group_message", "send_agent_message", "wait", "report_suspicious_activity">>
        ELSE <<>>)

Names(tools) == {tools[i] : i \in 1..Len(tools)}

Returns(v, f) == [kind |-> "return", exc |-> "", value |-> v, file |-> f]

Raises(e, v, f) == [kind |-> "raise", exc |-> e, value |-> v, file |-> f]

\* reset_context: unlinks the context file when it exists; a failing unlink
\* is reported in the message and the restart is asked for all the same
reset_context(f) ==
    IF f.exists
    THEN {Returns(ResetPayloadDeleted, NoFile), Returns(ResetPayloadError, f)}
    ELSE {Returns(ResetPayload, f)}

\* restart_program: only builds the restart signal
restart_program(f) == Returns(RestartPayload, f)

\* ask_human: the answer typed, the EOF reply, or Ctrl-C during input()
ask_human(f) == {Returns(HumanAnswer, f), Returns(NoHumanResponse, f), Raises("KeyboardInterrupt", "", f)}

\* what the callable registered under a name may do, given the file on disk
ToolBehaviours(name, f) ==
    CASE name = "ask_human" -> ask_human(f)
      [] name = "restart_program" -> {restart_program(f)}
      [] name = "reset_context" -> reset_context(f)
      [] name = "list_files" -> {Returns(JsonList, f)}
      [] OTHER -> {Returns(PlainText, f), Returns(RestartOnly, f), Returns(ResetPayload, f),
                   Returns(JsonDict, f), Raises("ValueError", Boom, f)}

\* a dispatch without the try around the call: whatever is raised leaves it
M_execute_tool_no_try(tools, tool_name, beh, f) ==
    IF tool_name \notin Names(tools)
    THEN [result |-> ToolNotFound, called |-> FALSE, propagated |-> FALSE, file |-> f]
    ELSE IF beh.kind = "return"
         THEN [result |-> beh.value, called |-> TRUE, propagated |-> FALSE, file |-> beh.file]
         ELSE [result |-> "", called |-> TRUE, propagated |-> TRUE, file |-> beh.file]

\* a dispatch without the lookup: the callable runs whatever the name is
M_execute_tool_no_lookup(tools, tool_name, beh, f) ==
    CASE beh.kind = "return" -> [result |-> beh.value, called |-> TRUE, propagated |-> FALSE, file |-> beh.file]
      [] beh.exc \in ExceptionClasses -> [result |-> beh.value, called |-> TRUE, propagated |-> FALSE, file |-> beh.file]
      [] OTHER -> [result |-> "", called |-> TRUE, propagated |-> TRUE, file |-> beh.file]

\* execute_tool: result string, whether the callable ran, whether an
\* exception left execute_tool (except Exception lets the others through),
\* and the file as the callable left it
execute_tool(tools, tool_name, beh, f) ==
    IF tool_name \notin Names(tools)
    THEN [result |-> ToolNotFound, called |-> FALSE, propagated |-> FALSE, file |-> f]
    ELSE CASE beh.kind = "return" -> [result |-> beh.value, called |-> TRUE, propagated |-> FALSE, file |-> beh.file]
           [] beh.exc \in ExceptionClasses -> [result |-> beh.value, called |-> TRUE, propagated |-> FALSE, file |-> beh.file]
           [] OTHER -> [result |-> "", called |-> TRUE, propagated |-> TRUE, file |-> beh.file]

(***************************************************************************)
(* The turn loop: state of one agent process and of the file it persists.  *)
(***************************************************************************)
VARIABLES
    pc,                     \* where the process is: boot, loop, infer, dispatch, scan, execv, exited
    conversation,           \* Agent.run's conversation list
    file,                   \* conversation_context.pkl on disk
    consecutive_tool_count, \* the governor's count
    read_user_input,        \* Agent.run's flag
    response,               \* content blocks of the response being processed
    block_idx,              \* position of the for loop over response.content
    tool_results,           \* tool_result blocks collected so far
    scan_idx,               \* position of the for loop over tool_results
    tool_choice,            \* tool_choice of the latest model invocation
    is_restarting,          \* sys.is_restarting
    is_error_exit,          \* sys.is_error_exit
    exit_code,              \* status the process exited with, -1 while it runs
    save_ok,                \* what the latest save_conversation returned
    loaded,                 \* what load_conversation returned at boot
    relaunches,             \* times the operator started the program again
    started_by,             \* how this process image came to run: operator, restart, reset
    boot_len,               \* history: turns in the conversation when the loop was entered
    persisted,              \* history: the conversation the file was last written from
    handed_over,            \* history: the conversation saved by the process that re-executed for a restart
    tool_calls,             \* history: names of the tool callables run by this process
    error_logged,           \* history: a record of this process's fatal error is in error.txt
    remove_failed,          \* history: os.remove raised in this process's exit handler
    sys_executable,         \* sys.executable
    sys_argv,               \* sys.argv
    \* save_conversation / load_conversation on their own
    p_pc, p_conversation, p_file, p_outcome, p_returned, p_loaded,
    \* cleanup_context on its own: the two flags of sys, the file before the
    \* call, and whether os.remove raised
    p_restarting, p_error_exit, p_before, p_remove_failed,
    \* the body of the for loop on one tool_use block: the governor's step,
    \* then execute_tool
    t_pc, t_tools, t_name, t_behaviour, t_file, t_out, t_calls,
    t_count_before,         \* the governor's count when the block is reached
    t_count,                \* the governor's count
    \* run_inference of agent/llm.py on its own
    l_pc, l_count, l_team, l_tools, l_tool_choice, llm_requests, success, l_log,
    l_response,             \* the module's global response: the latest answer of messages.create
    l_returned,             \* what run_inference returned
    \* remove_all_but_last_three_cache_controls and the conversation of its caller
    r_pc, r_conv, r_before, r_out, r_again, r_sent,
    \* the message queue of context_handling.py, its producers and its consumer
    q_queue,                \* _MESSAGE_QUEUE: the items of the queue.Queue, oldest first
    q_pc,                   \* where each thread is
    q_item,                 \* the item each producer is putting
    q_next,                 \* position of each worker in its list of messages
    q_add_ok,               \* every add_to_message_queue so far has returned True
    q_call,                 \* block and timeout of the consumer's call
    q_get,                  \* what the latest get_from_message_queue returned
    q_sent,                 \* history: the items in the order they were put
    q_got,                  \* history: the items in the order they were returned to the consumer
    message_count,          \* api.message_count
    q_requests,             \* requests POSTed to /send-message so far
    q_acks,                 \* 200 responses given so far
    q_rejected,             \* 422 responses given so far
    q_req,                  \* the request the /send-message handler was last called with
    \* the loop that watches the token usage, and generate_restart_summary
    o_pc,                   \* await, invoke, summarize, exited
    o_conversation,         \* the conversation of that loop
    o_tokens,               \* token usage added up since the last reset
    o_outcome,              \* how the latest summary call ended
    o_escaped,              \* an exception left generate_restart_summary
    o_resets                \* times the history was replaced by a summary

persistVars == <<p_pc, p_conversation, p_file, p_outcome, p_returned, p_loaded,
                 p_restarting, p_error_exit, p_before, p_remove_failed>>

toolVars == <<t_pc, t_tools, t_name, t_behaviour, t_file, t_out, t_calls, t_count_before, t_count>>

llmVars == <<l_pc, l_count, l_team, l_tools, l_tool_choice, llm_requests, success, l_log,
            l_response, l_returned>>

pruneVars == <<r_pc, r_conv, r_before, r_out, r_again, r_sent>>

queueVars == <<q_queue, q_pc, q_item, q_next, q_add_ok, q_call, q_get, q_sent, q_got,
               message_count, q_requests, q_acks, q_rejected, q_req>>

loopVars == <<pc, conversation, file, consecutive_tool_count, read_user_input, response, block_idx,
              tool_results, scan_idx, tool_choice, is_restarting, is_error_exit, exit_code, save_ok,
              loaded, relaunches, started_by, boot_len, persisted, handed_over, tool_calls,
              error_logged, remove_failed, sys_executable, sys_argv>>

overflowVars == <<o_pc, o_conversation, o_tokens, o_outcome, o_escaped, o_resets>>

vars == <<loopVars, persistVars, toolVars, llmVars, pruneVars, queueVars, overflowVars>>

\* a specification leaves the variables of the others idle
LoopIdle ==
    /\ pc = "idle"
    /\ conversation = <<>>
    /\ file = NoFile
    /\ consecutive_tool_count = 0
    /\ read_user_input = TRUE
    /\ response = <<>>
    /\ block_idx = 1
    /\ tool_results = <<>>
    /\ scan_idx = 1
    /\ tool_choice = "none"
    /\ is_restarting = FALSE
    /\ is_error_exit = FALSE
    /\ exit_code = -1
    /\ save_ok = FALSE
    /\ loaded = None
    /\ relaunches = 0
    /\ started_by = "operator"
    /\ boot_len = 0
    /\ persisted = None
    /\ handed_over = None
    /\ tool_calls = <<>>
    /\ error_logged = FALSE
    /\ remove_failed = FALSE
    /\ sys_executable = ""
    /\ sys_argv = <<>>

PersistIdle ==
    /\ p_pc = "idle"
    /\ p_conversation = <<>>
    /\ p_file = NoFile
    /\ p_outcome = "none"
    /\ p_returned = FALSE
    /\ p_loaded = None
    /\ p_restarting = FALSE
    /\ p_error_exit = FALSE
    /\ p_before = NoFile
    /\ p_remove_failed = FALSE

ToolIdle ==
    /\ t_pc = "idle"
    /\ t_tools = <<>>
    /\ t_name = ""
    /\ t_behaviour = Returns("", NoFile)
    /\ t_file = NoFile
    /\ t_out = [result |-> "", called |-> FALSE, propagated |-> FALSE, file |-> NoFile]
    /\ t_calls = 0
    /\ t_count_before = 0
    /\ t_count = 0

OverflowIdle ==
    /\ o_pc = "idle"
    /\ o_conversation = <<>>
    /\ o_tokens = 0
    /\ o_outcome = [kind |-> "none", exc |-> "", content |-> <<>>]
    /\ o_escaped = FALSE
    /\ o_resets = 0

QueueIdle ==
    /\ q_queue = <<>>
    /\ q_pc = <<>>
    /\ q_item = <<>>
    /\ q_next = <<>>
    /\ q_add_ok = TRUE
    /\ q_call = [block |-> FALSE, timeout |-> FALSE]
    /\ q_get = [message |-> <<>>, found |-> FALSE]
    /\ q_sent = <<>>
    /\ q_got = <<>>
    /\ message_count = 0
    /\ q_requests = 0
    /\ q_acks = 0
    /\ q_rejected = 0
    /\ q_req = [message |-> "", from_agent |-> ""]

PruneIdle ==
    /\ r_pc = "idle"
    /\ r_conv = <<>>
    /\ r_before = <<>>
    /\ r_out = [ok |-> TRUE, val |-> <<>>]
    /\ r_again = [ok |-> TRUE, val |-> <<>>]
    /\ r_sent = <<>>

LLMIdle ==
    /\ l_pc = "idle"
    /\ l_count = 0
    /\ l_team = FALSE
    /\ l_tools = <<>>
    /\ l_tool_choice = "none"
    /\ llm_requests = 1
    /\ success = FALSE
    /\ l_response = [content |-> <<>>, input_tokens |-> 0, output_tokens |-> 0, truthy |-> FALSE]
    /\ l_returned = [content |-> <<>>, total_token_usage |-> -1]
    /\ l_log = <<>>

\* Agent.__init__: the threshold of the governor
max_consecutive_tools == 10

\* ids the completion API gives the tool_use blocks of one response
IdPool == <<"toolu_01", "toolu_02", "toolu_03", "toolu_04", "toolu_05", "toolu_06",
            "toolu_07", "toolu_08", "toolu_09", "toolu_10", "toolu_11", "toolu_12">>

\* tool names the model asks for; the last one is not registered
ModelToolNames == {"read_file", "list_files", "ask_human", "restart_program", "reset_context", "does_not_exist"}

BlockKinds == {"text"} \cup ModelToolNames

\* kinds of the blocks of a response of more than one block
WideKinds == BlockKinds \ {"read_file", "does_not_exist"}

MkBlock(k, i) == IF k = "text" THEN TextBlock(ModelText) ELSE ToolUse(IdPool[i], k)

\* responses the completion API may return to a conversation of n turns
Responses(n) ==
    {<<MkBlock(k, 1)>> : k \in BlockKinds}
    \cup (IF n <= WideUntil
          THEN UNION {{[i \in 1..m |-> MkBlock(ks[i], i)] : ks \in [1..m -> WideKinds]} : m \in 2..MaxBlocks}
               \cup {[i \in 1..m |-> MkBlock("list_files", i)] : m \in (max_consecutive_tools - 1)..MaxBatch}
          ELSE {})

\* the interpreter, and the arguments the operator starts it with: the
\* script and an argument of its own
Python == "/usr/bin/python3"

Launch == <<"main.py", "--team">>

\* memory of a process image that has just been started
FreshMemory ==
    /\ conversation' = <<>>
    /\ consecutive_tool_count' = 0
    /\ read_user_input' = TRUE
    /\ response' = <<>>
    /\ block_idx' = 1
    /\ tool_results' = <<>>
    /\ scan_idx' = 1
    /\ tool_choice' = "none"
    /\ is_restarting' = FALSE
    /\ is_error_exit' = FALSE
    /\ save_ok' = FALSE
    /\ loaded' = None
    /\ boot_len' = 0
    /\ tool_calls' = <<>>
    /\ remove_failed' = FALSE
    /\ error_logged' = FALSE

Init ==
    /\ pc = "boot"
    /\ conversation = <<>>
    /\ file = NoFile
    /\ consecutive_tool_count = 0
    /\ read_user_input = TRUE
    /\ response = <<>>
    /\ block_idx = 1
    /\ tool_results = <<>>
    /\ scan_idx = 1
    /\ tool_choice = "none"
    /\ is_restarting = FALSE
    /\ is_error_exit = FALSE
    /\ exit_code = -1
    /\ save_ok = FALSE
    /\ loaded = None
    /\ relaunches = 0
    /\ started_by = "operator"
    /\ boot_len = 0
    /\ persisted = None
    /\ handed_over = None
    /\ tool_calls = <<>>
    /\ error_logged = FALSE
    /\ remove_failed = FALSE
    /\ sys_executable = Python
    /\ sys_argv = Launch
    /\ PersistIdle
    /\ ToolIdle
    /\ LLMIdle
    /\ PruneIdle
    /\ QueueIdle
    /\ OverflowIdle

\* check_for_agent_restart: some tool result of some user turn parses to an
\* object with truthy restart and agent_initiated
ResultMarked(b) ==
    /\ b.type = "tool_result"
    /\ JsonLoads(b.content).kind = "dict"
    /\ JsonLoads(b.content).restart
    /\ JsonLoads(b.content).agent_initiated

check_for_agent_restart(conv) ==
    \E i \in 1..Len(conv) :
        /\ conv[i].role = "user"
        /\ conv[i].kind = "blocks"
        /\ \E j \in 1..Len(conv[i].blocks) : ResultMarked(conv[i].blocks[j])

\* a governor that takes up a resumed conversation at its threshold
M_initial_tool_count(conv) == IF conv # <<>> THEN max_consecutive_tools ELSE 0

\* Agent.__init__: the governor's count of a new Agent, whatever
\* conversation run is about to load
initial_tool_count(conv) == 0

\* Agent.__init__ and the head of Agent.run, up to the while loop
Boot ==
    /\ pc = "boot"
    /\ LET l == load_conversation(file)
           resumed == l.some /\ l.val # <<>>
           agent_initiated_restart == resumed /\ check_for_agent_restart(l.val)
           conv == IF ~resumed THEN <<>>
                   ELSE IF agent_initiated_restart THEN Append(l.val, TextTurn("user", Notice))
                   ELSE l.val
       IN /\ loaded' = l
          /\ conversation' = conv
          /\ read_user_input' = ~agent_initiated_restart
          /\ boot_len' = Len(conv)
          /\ consecutive_tool_count' = initial_tool_count(conv)
    /\ pc' = "loop"
    /\ UNCHANGED <<file, response, block_idx, tool_results, scan_idx, tool_choice, is_restarting,
                   is_error_exit, exit_code, save_ok, relaunches, started_by, persisted, handed_over, tool_calls>>
    /\ UNCHANGED <<error_logged, remove_failed, sys_executable, sys_argv, persistVars, toolVars, llmVars, pruneVars, queueVars, overflowVars>>

\* the interpreter exits: the atexit handler runs, the process is gone
Exit(code, error_exit) ==
    /\ \E remove_ok \in BOOLEAN :
         /\ file' = cleanup_context(file, is_restarting, error_exit, remove_ok)
         /\ remove_failed' = remove_raises(file, is_restarting, error_exit, remove_ok)
         /\ persisted' = IF cleanup_context(file, is_restarting, error_exit, remove_ok) = file
                         THEN persisted ELSE None
    /\ UNCHANGED handed_over
    /\ exit_code' = code
    /\ pc' = "exited"

\* the prompt: the human types a line
ReadUserInput ==
    /\ pc = "loop"
    /\ read_user_input
    /\ Len(conversation) < MaxTurns
    /\ conversation' = Append(conversation, TextTurn("user", HumanText))
    /\ consecutive_tool_count' = 0
    /\ pc' = "infer"
    /\ UNCHANGED <<file, read_user_input, response, block_idx, tool_results, scan_idx, tool_choice,
                   is_restarting, is_error_exit, exit_code, save_ok, loaded, relaunches, started_by, boot_len,
                   persisted, handed_over, tool_calls>>
    /\ UNCHANGED <<error_logged, remove_failed, sys_executable, sys_argv, persistVars, toolVars, llmVars, pruneVars, queueVars, overflowVars>>

\* the prompt: end of file (not ok: break, run and main return)
InputEOF ==
    /\ pc = "loop"
    /\ read_user_input
    /\ Exit(0, is_error_exit)
    /\ UNCHANGED <<conversation, consecutive_tool_count, read_user_input, response, block_idx,
                   tool_results, scan_idx, tool_choice, is_restarting, is_error_exit, save_ok, loaded,
                   relaunches, started_by, boot_len, tool_calls>>
    /\ UNCHANGED <<error_logged, sys_executable, sys_argv, persistVars, toolVars, llmVars, pruneVars, queueVars, overflowVars>>

\* the prompt: KeyboardInterrupt, sys.exit(0)
InputInterrupt ==
    /\ pc = "loop"
    /\ read_user_input
    /\ Exit(0, is_error_exit)
    /\ UNCHANGED <<conversation, consecutive_tool_count, read_user_input, response, block_idx,
                   tool_results, scan_idx, tool_choice, is_restarting, is_error_exit, save_ok, loaded,
                   relaunches, started_by, boot_len, tool_calls>>
    /\ UNCHANGED <<error_logged, sys_executable, sys_argv, persistVars, toolVars, llmVars, pruneVars, queueVars, overflowVars>>

\* Agent.run_inference: forced tool choice once the governor's threshold is reached
ToolChoice(tools, count) ==
    IF count >= max_consecutive_tools /\ "ask_human" \in Names(tools) THEN "ask_human" ELSE "auto"

\* the conversation has reached the length explored; the invocation that
\* follows a forced one and the first invocation of a process are explored
\* beyond it
Capped ==
    IF tool_choice \in {"ask_human", "none"}
    THEN Len(conversation) >= MaxTurns + 2
    ELSE Len(conversation) >= MaxTurns

InferenceDue ==
    \/ pc = "infer"
    \/ pc = "loop" /\ ~read_user_input /\ ~Capped

\* the model is invoked and answers
RunInference ==
    /\ InferenceDue
    /\ tool_choice' = ToolChoice(AgentTools, consecutive_tool_count)
    /\ \E r \in Responses(Len(conversation)) : response' = r
    /\ block_idx' = 1
    /\ tool_results' = <<>>
    /\ pc' = "dispatch"
    /\ UNCHANGED <<conversation, file, consecutive_tool_count, read_user_input, scan_idx, is_restarting,
                   is_error_exit, exit_code, save_ok, loaded, relaunches, started_by, boot_len, persisted, handed_over, tool_calls>>
    /\ UNCHANGED <<error_logged, remove_failed, sys_executable, sys_argv, persistVars, toolVars, llmVars, pruneVars, queueVars, overflowVars>>

\* the model is invoked and the call raises: main's handler logs, sets
\* is_error_exit and exits with status 1
InferenceFails ==
    /\ InferenceDue
    /\ tool_choice' = ToolChoice(AgentTools, consecutive_tool_count)
    /\ is_error_exit' = TRUE
    /\ Exit(1, TRUE)
    /\ UNCHANGED <<conversation, consecutive_tool_count, read_user_input, response, block_idx,
                   tool_results, scan_idx, is_restarting, save_ok, loaded, relaunches, started_by, boot_len,
                   tool_calls>>
    /\ \E w1, w2 \in BOOLEAN : error_logged' = log_error(log_error(error_logged, w1), w2)
    /\ UNCHANGED <<sys_executable, sys_argv, persistVars, toolVars, llmVars, pruneVars, queueVars, overflowVars>>

\* the callable behaviours open to a tool_use block
BlockBehaviours(b) ==
    IF b.name \in Names(AgentTools) THEN ToolBehaviours(b.name, file) ELSE {Returns("", file)}

\* a governor that counts ask_human like any other tool
M_Governor(count, name) == count + 1

\* a governor that ask_human leaves as it is
M_Governor_keeps(count, name) == IF name = "ask_human" THEN count ELSE count + 1

\* a governor that is reset by an ask_human that is registered and returns
M_Governor_on_success(count, name) ==
    IF name # "ask_human" THEN count + 1
    ELSE IF "ask_human" \in Names(t_tools) /\ t_behaviour.kind = "return" /\ t_behaviour.value # NoHumanResponse
         THEN 0
         ELSE count

\* the governor's step on a tool_use block
Governor(count, name) == IF name = "ask_human" THEN 0 ELSE count + 1

\* a result block that carries the id of the response's first block
M_NewToolResult(b, result) == ToolResult(IdPool[1], result)

\* the tool_result block built for a tool_use block
NewToolResult(b, result) == ToolResult(b.id, result)

\* a for loop that a tool result asking for a restart breaks out of
M_NextBlock(idx, result) ==
    IF JsonLoads(result).kind = "dict" /\ JsonLoads(result).restart THEN Len(response) + 1 ELSE idx + 1

\* the for loop over response.content goes on to the block that follows,
\* whatever the tool has returned
NextBlock(idx, result) == idx + 1

\* one pass of the for loop over response.content
DispatchBlock ==
    /\ pc = "dispatch"
    /\ block_idx <= Len(response)
    /\ LET b == response[block_idx]
       IN IF b.type = "text"
          THEN /\ block_idx' = block_idx + 1
               /\ UNCHANGED <<consecutive_tool_count, tool_results, file, persisted, tool_calls>>
          ELSE /\ consecutive_tool_count' = Governor(consecutive_tool_count, b.name)
               /\ \E beh \in BlockBehaviours(b) :
                    LET r == execute_tool(AgentTools, b.name, beh, file)
                    IN /\ ~r.propagated
                       /\ tool_results' = Append(tool_results, NewToolResult(b, r.result))
                       /\ file' = r.file
                       /\ persisted' = IF r.file = file THEN persisted ELSE None
                       /\ tool_calls' = IF r.called THEN Append(tool_calls, b.name) ELSE tool_calls
                       /\ block_idx' = NextBlock(block_idx, r.result)
    /\ UNCHANGED <<pc, conversation, read_user_input, response, scan_idx, tool_choice, is_restarting,
                   is_error_exit, exit_code, save_ok, loaded, relaunches, started_by, boot_len, handed_over>>
    /\ UNCHANGED <<error_logged, remove_failed, sys_executable, sys_argv, persistVars, toolVars, llmVars, pruneVars, queueVars, overflowVars>>

\* a tool's callable raises a BaseException that execute_tool, run and main
\* do not catch: the interpreter exits with a traceback
ToolInterrupted ==
    /\ pc = "dispatch"
    /\ block_idx <= Len(response)
    /\ response[block_idx].type = "tool_use"
    /\ \E beh \in BlockBehaviours(response[block_idx]) :
         execute_tool(AgentTools, response[block_idx].name, beh, file).propagated
    /\ consecutive_tool_count' = Governor(consecutive_tool_count, response[block_idx].name)
    /\ tool_calls' = Append(tool_calls, response[block_idx].name)
    /\ Exit(130, is_error_exit)
    /\ UNCHANGED <<conversation, read_user_input, response, block_idx, tool_results, scan_idx,
                   tool_choice, is_restarting, is_error_exit, save_ok, loaded, relaunches, started_by, boot_len>>
    /\ UNCHANGED <<error_logged, sys_executable, sys_argv, persistVars, toolVars, llmVars, pruneVars, queueVars, overflowVars>>

\* turns with the results ahead of the response they answer
M_NewTurns(resp, results) ==
    IF results # <<>>
    THEN <<BlocksTurn("user", results), BlocksTurn("assistant", resp)>>
    ELSE <<BlocksTurn("assistant", resp)>>

\* the turns a pass of the while loop appends after the for loop: the
\* assistant's own message, then the tool results if there are any
NewTurns(resp, results) ==
    IF results # <<>>
    THEN <<BlocksTurn("assistant", resp), BlocksTurn("user", results)>>
    ELSE <<BlocksTurn("assistant", resp)>>

\* a loop that prompts after every response
M_NextReadsInput(results) == TRUE

\* read_user_input as the end of a pass of the while loop sets it
NextReadsInput(results) == results = <<>>

\* after the for loop: the assistant turn, then the tool results as a user turn
AppendTurns ==
    /\ pc = "dispatch"
    /\ block_idx > Len(response)
    /\ conversation' = conversation \o NewTurns(response, tool_results)
    /\ read_user_input' = NextReadsInput(tool_results)
    /\ scan_idx' = 1
    /\ pc' = IF tool_results # <<>> THEN "scan" ELSE "loop"
    /\ UNCHANGED <<file, consecutive_tool_count, response, block_idx, tool_results, tool_choice,
                   is_restarting, is_error_exit, exit_code, save_ok, loaded, relaunches, started_by, boot_len,
                   persisted, handed_over, tool_calls>>
    /\ UNCHANGED <<error_logged, remove_failed, sys_executable, sys_argv, persistVars, toolVars, llmVars, pruneVars, queueVars, overflowVars>>

\* a scan that takes every JSON object for a restart request
M_Signal(tr) ==
    LET payload == JsonLoads(tr.content)
    IN IF payload.kind = "dict"
       THEN IF payload.reset_context THEN "reset" ELSE "restart"
       ELSE "none"

\* a scan that restarts on whatever parses as JSON
M_Signal_any_json(tr) ==
    IF JsonLoads(tr.content).kind # "error" THEN "restart" ELSE "none"

\* a scan that does not look at reset_context
M_Signal_no_reset(tr) ==
    LET payload == JsonLoads(tr.content)
    IN IF payload.kind = "dict" /\ payload.restart THEN "restart" ELSE "none"

\* the restart signal a tool result carries: none, restart, or reset
Signal(tr) ==
    LET payload == JsonLoads(tr.content)
    IN IF payload.kind = "dict" /\ payload.restart
       THEN IF payload.reset_context THEN "reset" ELSE "restart"
       ELSE "none"

\* a restart that is given up when the save has failed
M_save_conv_and_restart(returned) ==
    [is_restarting |-> returned, pc |-> IF returned THEN "execv" ELSE "loop"]

\* save_conv_and_restart after its call of save_conversation: the value
\* returned is dropped, the flag is set and the process re-executes
save_conv_and_restart(returned) == [is_restarting |-> TRUE, pc |-> "execv"]

\* one pass of the for loop over tool_results
ScanResult ==
    /\ pc = "scan"
    /\ scan_idx <= Len(tool_results)
    /\ LET sig == Signal(tool_results[scan_idx])
       IN CASE sig = "reset" ->
                 /\ is_restarting' = TRUE
                 /\ pc' = "execv"
                 /\ handed_over' = None
                 /\ UNCHANGED <<file, save_ok, persisted, scan_idx>>
            [] sig = "restart" ->
                 /\ \E outcome \in WriteOutcomes :
                      LET sv == save_conversation(conversation, file, outcome)
                      IN /\ file' = sv.file
                         /\ save_ok' = sv.returned
                         /\ handed_over' = IF sv.returned THEN [some |-> TRUE, val |-> conversation] ELSE None
                         /\ persisted' = CASE outcome = "ok" -> [some |-> TRUE, val |-> conversation]
                                           [] outcome = "open_fails" -> persisted
                                           [] OTHER -> None
                         /\ is_restarting' = save_conv_and_restart(sv.returned).is_restarting
                         /\ pc' = save_conv_and_restart(sv.returned).pc
                 /\ UNCHANGED scan_idx
            [] OTHER ->
                 /\ scan_idx' = scan_idx + 1
                 /\ UNCHANGED <<pc, file, save_ok, persisted, handed_over, is_restarting>>
    /\ UNCHANGED <<conversation, consecutive_tool_count, read_user_input, response, block_idx,
                   tool_results, tool_choice, is_error_exit, exit_code, loaded, relaunches, started_by, boot_len,
                   tool_calls>>
    /\ UNCHANGED <<error_logged, remove_failed, sys_executable, sys_argv, persistVars, toolVars, llmVars, pruneVars, queueVars, overflowVars>>

\* no result asked for a restart: back to the head of the while loop
ScanDone ==
    /\ pc = "scan"
    /\ scan_idx > Len(tool_results)
    /\ pc' = "loop"
    /\ UNCHANGED <<conversation, file, consecutive_tool_count, read_user_input, response, block_idx,
                   tool_results, scan_idx, tool_choice, is_restarting, is_error_exit, exit_code, save_ok,
                   loaded, relaunches, started_by, boot_len, persisted, handed_over, tool_calls>>
    /\ UNCHANGED <<error_logged, remove_failed, sys_executable, sys_argv, persistVars, toolVars, llmVars, pruneVars, queueVars, overflowVars>>

\* an execv that passes the script and drops its arguments
M_execv(path, args) == [executable |-> path, argv |-> <<args[2]>>]

\* os.execv(path, args): the interpreter at path starts with args; args[1]
\* is its own name, the rest is the sys.argv of the new process image
execv(path, args) == [executable |-> path, argv |-> Tail(args)]

\* os.execv: the process image is replaced, memory starts afresh
Execv ==
    /\ pc = "execv"
    /\ pc' = "boot"
    /\ started_by' = Signal(tool_results[scan_idx])
    /\ FreshMemory
    /\ sys_executable' = execv(sys_executable, <<sys_executable>> \o sys_argv).executable
    /\ sys_argv' = execv(sys_executable, <<sys_executable>> \o sys_argv).argv
    /\ UNCHANGED <<file, exit_code, relaunches, persisted, handed_over>>
    /\ UNCHANGED <<persistVars, toolVars, llmVars, pruneVars, queueVars, overflowVars>>

\* the operator starts the program again after it has exited
Relaunch ==
    /\ pc = "exited"
    /\ relaunches < MaxRelaunch
    /\ relaunches' = relaunches + 1
    /\ exit_code' = -1
    /\ started_by' = "operator"
    /\ pc' = "boot"
    /\ handed_over' = None
    /\ FreshMemory
    /\ UNCHANGED <<file, persisted, sys_executable, sys_argv>>
    /\ UNCHANGED <<persistVars, toolVars, llmVars, pruneVars, queueVars, overflowVars>>

Next ==
    \/ Boot
    \/ ReadUserInput
    \/ InputEOF
    \/ InputInterrupt
    \/ RunInference
    \/ InferenceFails
    \/ DispatchBlock
    \/ ToolInterrupted
    \/ AppendTurns
    \/ ScanResult
    \/ ScanDone
    \/ Execv
    \/ Relaunch

Spec == Init /\ [][Next]_vars

(***************************************************************************)
(* save_conversation followed by load_conversation, on conversations and   *)
(* files drawn from small sets.                                            *)
(***************************************************************************)
\* longest conversation drawn
MaxPersistLen == 2

\* turns of the shapes the loop and the tests build
TurnPool ==
    {TextTurn("user", "Hello"), TextTurn("assistant", "Hi there!"), TextTurn("user", "END"),
     BlocksTurn("assistant", <<TextBlock(ModelText)>>),
     BlocksTurn("assistant", <<TextBlock("STOP"), ToolUse(IdPool[1], "read_file")>>),
     BlocksTurn("assistant", <<ToolUse(IdPool[1], "restart_program"), ToolUse(IdPool[2], "list_files")>>),
     BlocksTurn("user", <<ToolResult(IdPool[1], RestartPayload), ToolResult(IdPool[2], JsonList)>>),
     BlocksTurn("user", <<ToolResult(IdPool[1], PlainText)>>),
     BlocksTurn("user", <<>>)}

PersistInputs == UNION {[1..n -> TurnPool] : n \in 0..MaxPersistLen}

\* the file before the save: absent, or left by an earlier run
StaleFiles == {NoFile, Unreadable, [exists |-> TRUE, data |-> Dumps(<<TextTurn("user", "old")>>)]}

PersistInit ==
    /\ p_pc = "start"
    /\ p_conversation \in PersistInputs
    /\ p_file \in StaleFiles
    /\ p_outcome = "none"
    /\ p_returned = FALSE
    /\ p_loaded = None
    /\ p_restarting = FALSE
    /\ p_error_exit = FALSE
    /\ p_before = NoFile
    /\ p_remove_failed = FALSE
    /\ LoopIdle
    /\ ToolIdle
    /\ LLMIdle
    /\ PruneIdle
    /\ QueueIdle
    /\ OverflowIdle

SaveConversation ==
    /\ p_pc = "start"
    /\ \E outcome \in WriteOutcomes :
         /\ p_outcome' = outcome
         /\ p_returned' = save_conversation(p_conversation, p_file, outcome).returned
         /\ p_file' = save_conversation(p_conversation, p_file, outcome).file
    /\ p_pc' = "saved"
    /\ UNCHANGED <<p_conversation, p_loaded, p_restarting, p_error_exit, p_before, p_remove_failed>>
    /\ UNCHANGED <<loopVars, toolVars, llmVars, pruneVars, queueVars, overflowVars>>

LoadConversation ==
    /\ p_pc = "saved"
    /\ p_loaded' = load_conversation(p_file)
    /\ p_pc' = "loaded"
    /\ UNCHANGED <<p_conversation, p_file, p_outcome, p_returned>>
    /\ UNCHANGED <<p_restarting, p_error_exit, p_before, p_remove_failed>>
    /\ UNCHANGED <<loopVars, toolVars, llmVars, pruneVars, queueVars, overflowVars>>

\* the exit handler runs, with the flags of sys as some earlier code left
\* them, on the file as it is: absent, stale, just saved, or half-written
CleanupContext ==
    /\ p_pc \in {"start", "saved", "loaded"}
    /\ \E restarting, error_exit, remove_ok \in BOOLEAN :
         /\ p_restarting' = restarting
         /\ p_error_exit' = error_exit
         /\ p_file' = cleanup_context(p_file, restarting, error_exit, remove_ok)
         /\ p_remove_failed' = remove_raises(p_file, restarting, error_exit, remove_ok)
    /\ p_before' = p_file
    /\ p_pc' = "cleaned"
    /\ UNCHANGED <<p_conversation, p_outcome, p_returned, p_loaded>>
    /\ UNCHANGED <<loopVars, toolVars, llmVars, pruneVars, queueVars, overflowVars>>

PersistNext ==
    \/ SaveConversation
    \/ LoadConversation
    \/ CleanupContext

SpecPersist == PersistInit /\ [][PersistNext]_vars

(***************************************************************************)
(* execute_tool on registries, names and callable behaviours drawn from    *)
(* small sets.                                                             *)
(***************************************************************************)
Registries == {<<>>, AgentTools, get_tool_list(FALSE), get_tool_list(TRUE), <<"boom", "raiser", "boom">>}

CalledNames == {"read_file", "ask_human", "boom", "raiser", "nonexistent_tool"}

\* what a registered callable may do when called
Behaviours(f) ==
    {Returns(PlainText, f), Returns(NoHumanResponse, f), Returns(ResetPayloadDeleted, NoFile)}
    \cup {Raises(e, Boom, f) : e \in ExceptionClasses \cup BaseOnlyClasses}

ToolInit ==
    /\ t_pc = "start"
    /\ t_tools \in Registries
    /\ t_name \in CalledNames
    /\ t_file \in StaleFiles
    /\ t_behaviour \in Behaviours(t_file)
    /\ t_out = [result |-> "", called |-> FALSE, propagated |-> FALSE, file |-> NoFile]
    /\ t_calls = 0
    /\ t_count_before \in {0, max_consecutive_tools - 1, max_consecutive_tools}
    /\ t_count = t_count_before
    /\ LoopIdle
    /\ PersistIdle
    /\ LLMIdle
    /\ PruneIdle
    /\ QueueIdle
    /\ OverflowIdle

ExecuteTool ==
    /\ t_pc = "start"
    /\ t_count' = Governor(t_count, t_name)
    /\ t_out' = execute_tool(t_tools, t_name, t_behaviour, t_file)
    /\ t_calls' = IF execute_tool(t_tools, t_name, t_behaviour, t_file).called THEN t_calls + 1 ELSE t_calls
    /\ t_pc' = "done"
    /\ UNCHANGED <<t_tools, t_name, t_behaviour, t_file, t_count_before>>
    /\ UNCHANGED <<loopVars, persistVars, llmVars, pruneVars, queueVars, overflowVars>>

ToolNext == ExecuteTool

SpecTool == ToolInit /\ [][ToolNext]_vars

(***************************************************************************)
(* run_inference of agent/llm.py: tool choice, then the retry loop around  *)
(* the completion call, on inputs and API outcomes drawn from small sets.  *)
(***************************************************************************)
\* run_inference's default for max_consecutive_tools
default_max_consecutive_tools == 10

\* run_inference's attempt ceiling
max_attempts == 5

\* counts drawn lie this close to the threshold (and 0)
CountSpread == 1

CountInputs ==
    {0} \cup (default_max_consecutive_tools - CountSpread)..(default_max_consecutive_tools + CountSpread)

\* status codes of APIStatusError the completion API answers with
TransientStatus == {429, 529, 500}

StatusCodes == TransientStatus \cup {401}

\* tool_choice as run_inference computes it
LLMToolChoice(tools, count, is_team_mode, max) ==
    IF ~is_team_mode /\ count >= max /\ "ask_human" \in Names(tools) THEN "ask_human" ELSE "auto"

\* a loop that stops one attempt early
M_RetryDue(ok, requests) == ~ok /\ requests < max_attempts

\* the condition of the while loop
RetryDue(ok, requests) == ~ok /\ requests <= max_attempts

\* no response: the global before the first call, and a falsy answer
NoResponse == [content |-> <<>>, input_tokens |-> 0, output_tokens |-> 0, truthy |-> FALSE]

\* the response an earlier call of run_inference left in the global
StaleResponse == [content |-> <<"earlier">>, input_tokens |-> 7, output_tokens |-> 9, truthy |-> TRUE]

\* responses of messages.create: content blocks and the usage of the call
LLMResponses ==
    {[content |-> c, input_tokens |-> i, output_tokens |-> 50, truthy |-> TRUE] :
        c \in {<<"text">>, <<"text", "tool_use">>}, i \in {100, 3}}

\* a usage that leaves the output tokens out
M_total_token_usage(resp) == resp.input_tokens

\* total_token_usage of run_inference
total_token_usage(resp) == resp.input_tokens + resp.output_tokens

LLMInit ==
    /\ l_pc = "start"
    /\ l_count \in CountInputs
    /\ l_team \in BOOLEAN
    /\ l_tools \in {get_tool_list(l_team), AgentTools}
    /\ l_tool_choice = "none"
    /\ llm_requests = 1
    /\ success = FALSE
    /\ l_response \in {NoResponse, StaleResponse}
    /\ l_returned = [content |-> <<>>, total_token_usage |-> -1]
    /\ l_log = <<>>
    /\ LoopIdle
    /\ PersistIdle
    /\ ToolIdle
    /\ PruneIdle
    /\ QueueIdle
    /\ OverflowIdle

\* up to the while loop: tool choice (and the payload) fixed once
PrepareRequest ==
    /\ l_pc = "start"
    /\ l_tool_choice' = LLMToolChoice(l_tools, l_count, l_team, default_max_consecutive_tools)
    /\ l_pc' = "calling"
    /\ UNCHANGED <<l_count, l_team, l_tools, llm_requests, success, l_log, l_response, l_returned>>
    /\ UNCHANGED <<loopVars, persistVars, toolVars, pruneVars, queueVars, overflowVars>>

Attempt(kind, status) == [tool_choice |-> l_tool_choice, kind |-> kind, status |-> status]

\* messages.create returns a response
CreateSucceeds ==
    /\ l_pc = "calling"
    /\ RetryDue(success, llm_requests)
    /\ success' = TRUE
    /\ \E resp \in LLMResponses \cup {NoResponse} : l_response' = resp
    /\ l_log' = Append(l_log, Attempt("ok", 200))
    /\ UNCHANGED <<l_pc, l_count, l_team, l_tools, l_tool_choice, llm_requests, l_returned>>
    /\ UNCHANGED <<loopVars, persistVars, toolVars, pruneVars, queueVars, overflowVars>>

\* messages.create raises APIStatusError: logged, counted, tried again
CreateStatusError ==
    /\ l_pc = "calling"
    /\ RetryDue(success, llm_requests)
    /\ \E code \in StatusCodes : l_log' = Append(l_log, Attempt("status_error", code))
    /\ llm_requests' = llm_requests + 1
    /\ UNCHANGED <<l_pc, l_count, l_team, l_tools, l_tool_choice, success, l_response, l_returned>>
    /\ UNCHANGED <<loopVars, persistVars, toolVars, pruneVars, queueVars, overflowVars>>

\* a loop that catches every exception of messages.create and tries again
M_CreateOtherError ==
    /\ l_pc = "calling"
    /\ RetryDue(success, llm_requests)
    /\ l_log' = Append(l_log, Attempt("other_error", 0))
    /\ llm_requests' = llm_requests + 1
    /\ UNCHANGED <<l_pc, l_count, l_team, l_tools, l_tool_choice, success, l_response, l_returned>>
    /\ UNCHANGED <<loopVars, persistVars, toolVars, pruneVars, queueVars, overflowVars>>

\* messages.create raises something else (connection error): not caught
CreateOtherError ==
    /\ l_pc = "calling"
    /\ RetryDue(success, llm_requests)
    /\ l_log' = Append(l_log, Attempt("other_error", 0))
    /\ l_pc' = "propagated"
    /\ UNCHANGED <<l_count, l_team, l_tools, l_tool_choice, llm_requests, success, l_response,
                   l_returned>>
    /\ UNCHANGED <<loopVars, persistVars, toolVars, pruneVars, queueVars, overflowVars>>

\* after the while loop: RuntimeError when no attempt succeeded, ValueError
\* when the response is empty, else the content and the token usage
FinishInference ==
    /\ l_pc = "calling"
    /\ ~RetryDue(success, llm_requests)
    /\ l_pc' = IF ~success THEN "runtime_error"
              ELSE IF ~l_response.truthy THEN "value_error" ELSE "returned"
    /\ l_returned' = IF success /\ l_response.truthy
                     THEN [content |-> l_response.content,
                           total_token_usage |-> total_token_usage(l_response)]
                     ELSE l_returned
    /\ UNCHANGED <<l_count, l_team, l_tools, l_tool_choice, llm_requests, success, l_log, l_response>>
    /\ UNCHANGED <<loopVars, persistVars, toolVars, pruneVars, queueVars, overflowVars>>

LLMNext ==
    \/ PrepareRequest
    \/ CreateSucceeds
    \/ CreateStatusError
    \/ CreateOtherError
    \/ FinishInference

SpecLLM == LLMInit /\ [][LLMNext]_vars

(***************************************************************************)
(* remove_all_but_last_three_cache_controls: the conversation is serialised *)
(* with json.dumps, the text is split at every occurrence of the marker     *)
(* text  , "cache_control": {"type": "ephemeral"}  and joined again, and    *)
(* the result goes through json.loads.  The serialised text is a stream of  *)
(* tokens in which the marker text is the token CC; a cache_control that is *)
(* the first key of its block is written without the leading comma and is   *)
(* another token, CCFIRST.                                                  *)
(***************************************************************************)
\* longest conversation drawn
MaxPruneTurns == 5

number_of_cache_controls == 3

MPool == <<"m1", "m2", "m3", "m4", "m5", "m6", "m7", "m8">>

NPool == <<"n1", "n2", "n3", "n4", "n5", "n6", "n7", "n8">>

\* a content block and where its cache_control key stands: none, last, first
CBlock(text, cc) == [text |-> text, cc |-> cc]

CTurn(role, blocks) == [role |-> role, blocks |-> blocks]

JDumpBlock(b) ==
    <<"{">> \o (IF b.cc = "first" THEN <<"CCFIRST">> ELSE <<>>) \o <<"text", b.text>>
    \o (IF b.cc = "last" THEN <<"CC">> ELSE <<>>) \o <<"}">>

JDumpTurn(t) ==
    <<"[", t.role>> \o Concat([j \in 1..Len(t.blocks) |-> JDumpBlock(t.blocks[j])]) \o <<"]">>

JDumps(conv) ==
    <<"BEGIN">> \o Concat([i \in 1..Len(conv) |-> JDumpTurn(conv[i])]) \o <<"END">>

\* str.split: the parts between the occurrences of sep
RECURSIVE SplitFrom(_, _, _, _)
SplitFrom(s, sep, i, cur) ==
    IF i > Len(s) THEN <<cur>>
    ELSE IF s[i] = sep THEN <<cur>> \o SplitFrom(s, sep, i + 1, <<>>)
    ELSE SplitFrom(s, sep, i + 1, Append(cur, s[i]))

Split(s, sep) == SplitFrom(s, sep, 1, <<>>)

\* str.join
RECURSIVE Join(_, _)
Join(parts, sep) ==
    IF parts = <<>> THEN <<>>
    ELSE IF Len(parts) = 1 THEN parts[1]
    ELSE parts[1] \o <<sep>> \o Join(Tail(parts), sep)

\* json.loads of the token stream
JBlockClose(s, k, text, cc) == IF At(s, k) = "}" THEN Parsed(CBlock(text, cc), k + 1) ELSE ParseError

JBlockBody(s, j, first) ==
    IF At(s, j) # "text" \/ j + 1 > Len(s) THEN ParseError
    ELSE IF At(s, j + 2) = "CC" THEN JBlockClose(s, j + 3, s[j + 1], "last")
    ELSE JBlockClose(s, j + 2, s[j + 1], IF first THEN "first" ELSE "none")

JParseBlock(s, i) ==
    IF At(s, i) # "{" THEN ParseError
    ELSE IF At(s, i + 1) = "CCFIRST" THEN JBlockBody(s, i + 2, TRUE)
    ELSE JBlockBody(s, i + 1, FALSE)

RECURSIVE JParseBlocks(_, _)
JBlocksFrom(b, s) == IF ~b.ok THEN ParseError ELSE Cons(b, JParseBlocks(s, b.next))

JParseBlocks(s, i) ==
    IF At(s, i) = "]" THEN Parsed(<<>>, i + 1) ELSE JBlocksFrom(JParseBlock(s, i), s)

JTurnOf(role, bs) == IF bs.ok THEN Parsed(CTurn(role, bs.val), bs.next) ELSE ParseError

JParseTurn(s, i) ==
    IF At(s, i) # "[" \/ i + 1 > Len(s) THEN ParseError ELSE JTurnOf(s[i + 1], JParseBlocks(s, i + 2))

RECURSIVE JParseTurns(_, _)
JTurnsFrom(t, s) == IF ~t.ok THEN ParseError ELSE Cons(t, JParseTurns(s, t.next))

JParseTurns(s, i) ==
    IF At(s, i) = "END" THEN Parsed(<<>>, i + 1) ELSE JTurnsFrom(JParseTurn(s, i), s)

JEnded(r, s) == IF r.ok /\ r.next = Len(s) + 1 THEN [ok |-> TRUE, val |-> r.val] ELSE [ok |-> FALSE, val |-> <<>>]

JLoads(s) == IF At(s, 1) # "BEGIN" THEN [ok |-> FALSE, val |-> <<>>] ELSE JEnded(JParseTurns(s, 2), s)

\* an early return that misses the case of exactly three markers
M_NothingToRemove(count) == count < number_of_cache_controls

\* the early return
NothingToRemove(count) == count <= number_of_cache_controls

\* first_part + last_part
Rejoined(parts, count) ==
    Concat(SubSeq(parts, 1, count - number_of_cache_controls + 1))
    \o Join(SubSeq(parts, count - number_of_cache_controls + 2, Len(parts)), "CC")

PruneParts(conv, parts) ==
    IF NothingToRemove(Len(parts) - 1)
    THEN [ok |-> TRUE, val |-> conv]
    ELSE JLoads(Rejoined(parts, Len(parts) - 1))

\* the value returned (ok), or json.loads raising
remove_all_but_last_three_cache_controls(conv) == PruneParts(conv, Split(JDumps(conv), "CC"))

\* a pruning done in place, in the caller's list
M_CallerConversation(conv, pruned) == pruned

\* the caller's list after the call: the result is built from the serialised
\* text, nothing is assigned into the argument
CallerConversation(conv, pruned) == conv

\* shapes of the turns drawn: the cache_control positions of their blocks
TurnShapes == {<<"none">>, <<"last">>, <<"first">>, <<"last", "last">>}

MkCTurn(i, shape) ==
    CTurn(IF i % 2 = 1 THEN "user" ELSE "assistant",
          [j \in 1..Len(shape) |-> CBlock(IF j = 1 THEN MPool[i] ELSE NPool[i], shape[j])])

PruneInputs ==
    UNION {{[i \in 1..n |-> MkCTurn(i, sh[i])] : sh \in [1..n -> TurnShapes]} : n \in 0..MaxPruneTurns}

PruneInit ==
    /\ r_pc = "start"
    /\ r_conv \in PruneInputs
    /\ r_before = r_conv
    /\ r_out = [ok |-> TRUE, val |-> <<>>]
    /\ r_again = [ok |-> TRUE, val |-> <<>>]
    /\ r_sent = <<>>
    /\ LoopIdle
    /\ PersistIdle
    /\ ToolIdle
    /\ LLMIdle
    /\ QueueIdle
    /\ OverflowIdle

\* a call of remove_all_but_last_three_cache_controls
Prune ==
    /\ r_pc = "start"
    /\ r_out' = remove_all_but_last_three_cache_controls(r_conv)
    /\ r_conv' = CallerConversation(r_conv, remove_all_but_last_three_cache_controls(r_conv).val)
    /\ r_pc' = "pruned"
    /\ UNCHANGED <<r_before, r_again, r_sent>>
    /\ UNCHANGED <<loopVars, persistVars, toolVars, llmVars, queueVars, overflowVars>>

\* a second call, on the result of the first
PruneAgain ==
    /\ r_pc = "pruned"
    /\ r_out.ok
    /\ r_again' = remove_all_but_last_three_cache_controls(r_out.val)
    /\ r_pc' = "again"
    /\ UNCHANGED <<r_conv, r_before, r_out, r_sent>>
    /\ UNCHANGED <<loopVars, persistVars, toolVars, llmVars, queueVars, overflowVars>>

\* run_inference: the local name is bound to the pruned conversation, which
\* is what messages.create is given; the call returns or raises
Invoke ==
    /\ r_pc = "start"
    /\ r_sent' = remove_all_but_last_three_cache_controls(r_conv).val
    /\ r_conv' = CallerConversation(r_conv, remove_all_but_last_three_cache_controls(r_conv).val)
    /\ \E outcome \in {"returned", "raised"} : r_pc' = outcome
    /\ UNCHANGED <<r_before, r_out, r_again>>
    /\ UNCHANGED <<loopVars, persistVars, toolVars, llmVars, queueVars, overflowVars>>

PruneNext ==
    \/ Prune
    \/ PruneAgain
    \/ Invoke

SpecPrune == PruneInit /\ [][PruneNext]_vars

(***************************************************************************)
(* The message queue: worker threads and the API's event loop call         *)
(* add_to_message_queue, the turn loop's thread calls                      *)
(* get_from_message_queue.  queue.Queue runs put and get under one mutex,  *)
(* so each is one step; a call begins in one step and acts in a later one. *)
(* The handlers of the API run one at a time on the event loop.            *)
(***************************************************************************)
\* messages each worker thread adds
MaxSends == 2

\* requests POSTed to /send-message
MaxRequests == 2

Workers == {"w1", "w2"}

Producers == Workers \cup {"api"}

Digits == <<"1", "2", "3", "4">>

\* the i-th message of worker w, as the tests build it
WorkerMessage(w, i) == <<"message_", w, Digits[i]>>

\* a field the JSON body does not have
Absent == "<absent>"

\* bodies POSTed to /send-message
Requests == {[message |-> m, from_agent |-> f] : m \in {"hello", Absent}, f \in {"Bob", Absent}}

\* MessageRequest: both fields are required
Accepted(req) == req.message # Absent /\ req.from_agent # Absent

\* a formatted message that leaves the sender out
M_formatted_message(req) == <<"[Direct message]: ", req.message>>

\* the f-string of send_to_agent, as the pieces it is made of
formatted_message(req) == <<"[Direct message from ", req.from_agent, "]: ", req.message>>

\* None, as get_from_message_queue returns it
NoMessage == <<"None">>

\* an add that drops what is queued already
M_add_to_message_queue(queue, message) == [queue |-> <<message>>, returned |-> TRUE]

\* add_to_message_queue: put on an unbounded queue, then True
add_to_message_queue(queue, message) == [queue |-> Append(queue, message), returned |-> TRUE]

\* a get that leaves the message in the queue
M_get_keeps(queue, block, expired) ==
    IF queue # <<>>
    THEN [queue |-> queue, message |-> Head(queue), found |-> TRUE, waits |-> FALSE]
    ELSE [queue |-> queue, message |-> NoMessage, found |-> FALSE, waits |-> block /\ ~expired]

\* a get that takes the newest message
M_get_newest(queue, block, expired) ==
    IF queue # <<>>
    THEN [queue |-> SubSeq(queue, 1, Len(queue) - 1), message |-> queue[Len(queue)],
          found |-> TRUE, waits |-> FALSE]
    ELSE [queue |-> queue, message |-> NoMessage, found |-> FALSE, waits |-> block /\ ~expired]

\* get_from_message_queue: the oldest message and True; on an empty queue
\* (None, False) when the call does not block or its timeout has expired,
\* and a wait otherwise
get_from_message_queue(queue, block, expired) ==
    IF queue # <<>>
    THEN [queue |-> Tail(queue), message |-> Head(queue), found |-> TRUE, waits |-> FALSE]
    ELSE [queue |-> queue, message |-> NoMessage, found |-> FALSE, waits |-> block /\ ~expired]

\* the ways the consumer calls get_from_message_queue: the defaults, and a
\* blocking call with a timeout
Calls == {[block |-> FALSE, timeout |-> FALSE], [block |-> TRUE, timeout |-> TRUE]}

QueueInit ==
    /\ q_queue = <<>>
    /\ q_pc = [t \in Producers \cup {"loop"} |-> "idle"]
    /\ q_item = [p \in Producers |-> <<>>]
    /\ q_next = [w \in Workers |-> 1]
    /\ q_add_ok = TRUE
    /\ q_call = [block |-> FALSE, timeout |-> FALSE]
    /\ q_get = [message |-> <<>>, found |-> FALSE]
    /\ q_sent = <<>>
    /\ q_got = <<>>
    /\ message_count = 0
    /\ q_requests = 0
    /\ q_acks = 0
    /\ q_rejected = 0
    /\ q_req = [message |-> "", from_agent |-> ""]
    /\ LoopIdle
    /\ PersistIdle
    /\ ToolIdle
    /\ LLMIdle
    /\ PruneIdle
    /\ OverflowIdle

\* a worker thread calls add_to_message_queue with its next message
WorkerAdd(w) ==
    /\ q_pc[w] = "idle"
    /\ q_next[w] <= MaxSends
    /\ q_item' = [q_item EXCEPT ![w] = WorkerMessage(w, q_next[w])]
    /\ q_pc' = [q_pc EXCEPT ![w] = "put"]
    /\ UNCHANGED <<q_queue, q_next, q_add_ok, q_call, q_get, q_sent, q_got,
                   message_count, q_requests, q_acks, q_rejected, q_req>>
    /\ UNCHANGED <<loopVars, persistVars, toolVars, llmVars, pruneVars, overflowVars>>

\* a POST /send-message arrives: a body that does not validate is answered
\* 422 before the handler runs; otherwise send_to_agent counts the message,
\* formats it and calls add_to_message_queue
Receive(req) ==
    /\ q_pc["api"] = "idle"
    /\ q_requests < MaxRequests
    /\ q_requests' = q_requests + 1
    /\ IF Accepted(req)
       THEN /\ message_count' = message_count + 1
            /\ q_req' = req
            /\ q_item' = [q_item EXCEPT !["api"] = formatted_message(req)]
            /\ q_pc' = [q_pc EXCEPT !["api"] = "put"]
            /\ UNCHANGED q_rejected
       ELSE /\ q_rejected' = q_rejected + 1
            /\ UNCHANGED <<message_count, q_req, q_item, q_pc>>
    /\ UNCHANGED <<q_queue, q_next, q_add_ok, q_call, q_get, q_sent, q_got, q_acks>>
    /\ UNCHANGED <<loopVars, persistVars, toolVars, llmVars, pruneVars, overflowVars>>

\* the put, one step under the mutex of the queue, then add_to_message_queue
\* returns; the handler of the API then returns its acknowledgement
Put(p) ==
    /\ q_pc[p] = "put"
    /\ q_queue' = add_to_message_queue(q_queue, q_item[p]).queue
    /\ q_add_ok' = (q_add_ok /\ add_to_message_queue(q_queue, q_item[p]).returned)
    /\ q_sent' = Append(q_sent, q_item[p])
    /\ q_pc' = [q_pc EXCEPT ![p] = "idle"]
    /\ IF p = "api"
       THEN q_acks' = q_acks + 1 /\ UNCHANGED q_next
       ELSE q_next' = [q_next EXCEPT ![p] = q_next[p] + 1] /\ UNCHANGED q_acks
    /\ UNCHANGED <<q_item, q_call, q_get, q_got, message_count, q_requests, q_rejected, q_req>>
    /\ UNCHANGED <<loopVars, persistVars, toolVars, llmVars, pruneVars, overflowVars>>

\* the turn loop's thread calls get_from_message_queue
GetCall ==
    /\ q_pc["loop"] = "idle"
    /\ \E c \in Calls : q_call' = c
    /\ q_pc' = [q_pc EXCEPT !["loop"] = "get"]
    /\ UNCHANGED <<q_queue, q_item, q_next, q_add_ok, q_get, q_sent, q_got,
                   message_count, q_requests, q_acks, q_rejected, q_req>>
    /\ UNCHANGED <<loopVars, persistVars, toolVars, llmVars, pruneVars, overflowVars>>

\* the get, one step under the mutex of the queue: a message, Empty, or a
\* wait that a put ends
Get ==
    /\ \/ q_pc["loop"] = "get"
       \/ q_pc["loop"] = "waiting" /\ q_queue # <<>>
    /\ LET r == get_from_message_queue(q_queue, q_call.block, FALSE)
       IN /\ q_queue' = r.queue
          /\ q_pc' = [q_pc EXCEPT !["loop"] = IF r.waits THEN "waiting" ELSE "idle"]
          /\ q_get' = IF r.waits THEN q_get ELSE [message |-> r.message, found |-> r.found]
          /\ q_got' = IF r.found THEN Append(q_got, r.message) ELSE q_got
    /\ UNCHANGED <<q_item, q_next, q_add_ok, q_call, q_sent, message_count, q_requests, q_acks,
                   q_rejected, q_req>>
    /\ UNCHANGED <<loopVars, persistVars, toolVars, llmVars, pruneVars, overflowVars>>

\* the timeout of the waiting consumer runs out on the empty queue
Expire ==
    /\ q_pc["loop"] = "waiting"
    /\ q_call.timeout
    /\ q_queue = <<>>
    /\ LET r == get_from_message_queue(q_queue, q_call.block, TRUE)
       IN /\ q_get' = [message |-> r.message, found |-> r.found]
          /\ q_queue' = r.queue
    /\ q_pc' = [q_pc EXCEPT !["loop"] = "idle"]
    /\ UNCHANGED <<q_item, q_next, q_add_ok, q_call, q_sent, q_got,
                   message_count, q_requests, q_acks, q_rejected, q_req>>
    /\ UNCHANGED <<loopVars, persistVars, toolVars, llmVars, pruneVars, overflowVars>>

QueueNext ==
    \/ \E w \in Workers : WorkerAdd(w)
    \/ \E req \in Requests : Receive(req)
    \/ \E p \in Producers : Put(p)
    \/ GetCall
    \/ Get
    \/ Expire

SpecQueue == QueueInit /\ [][QueueNext]_vars

(***************************************************************************)
(* Context-overflow mitigation.  generate_restart_summary is in the        *)
(* source; the loop that adds up the token usage, calls it and trims the   *)
(* history is not, and is written from the specification.                  *)
(***************************************************************************)
\* the configured ceiling of the token usage
TokenCeiling == 3

\* times the history is replaced in one run
MaxResets == 2

\* the request generate_restart_summary appends
AutomatedMessage == "[AUTOMATED MESSAGE] Due to token restrictions we will have to restart the current conversation. Please provide a brief summary of what you have accomplished in this conversation and what you should do next. Keep it concise (5-7 sentences max)."

\* the fixed summary
FallbackSummary == "AUTO-RESTART because of token limit: LLM summary failed."

\* token usage one call of run_inference reports
Usages == {1, 2}

\* how the summary call of run_inference may end: it returns content
\* blocks, raises an exception derived from Exception, or is interrupted
SummaryOutcomes ==
    {[kind |-> "return", exc |-> "", content |-> c] :
        c \in {<<TextBlock(ModelText)>>, <<TextBlock(ModelText), ToolUse(IdPool[1], "list_files")>>,
               <<ToolUse(IdPool[1], "list_files")>>, <<>>}}
    \cup {[kind |-> "raise", exc |-> e, content |-> <<>>] : e \in {"RuntimeError", "ValueError", "APIConnectionError"}}
    \cup {[kind |-> "raise", exc |-> "KeyboardInterrupt", content |-> <<>>]}

\* summary_content[0].text can be read
FirstBlockHasText(content) == content # <<>> /\ content[1].type = "text"

\* a summary without the except branch
M_generate_restart_summary(conversation_, outcome) ==
    LET asked == Append(conversation_, TextTurn("user", AutomatedMessage))
    IN IF outcome.kind = "return" /\ FirstBlockHasText(outcome.content)
       THEN [conversation |-> Append(asked, BlocksTurn("assistant", outcome.content)), escaped |-> FALSE]
       ELSE [conversation |-> asked, escaped |-> TRUE]

\* generate_restart_summary: the conversation as it leaves it, and whether
\* an exception leaves it
generate_restart_summary(conversation_, outcome) ==
    LET asked == Append(conversation_, TextTurn("user", AutomatedMessage))
    IN IF outcome.kind = "return" /\ FirstBlockHasText(outcome.content)
       THEN [conversation |-> Append(asked, BlocksTurn("assistant", outcome.content)), escaped |-> FALSE]
       ELSE IF outcome.exc \in BaseOnlyClasses
       THEN [conversation |-> asked, escaped |-> TRUE]
       ELSE [conversation |-> Append(asked, TextTurn("assistant", FallbackSummary)), escaped |-> FALSE]

\* the usage added up exceeds the ceiling
Overflows(tokens) == tokens > TokenCeiling

\* the restart trim: only the final turn is kept
RestartTrim(conversation_) == <<conversation_[Len(conversation_)]>>

OverflowInit ==
    /\ o_pc = "await"
    /\ o_conversation = <<>>
    /\ o_tokens = 0
    /\ o_outcome = [kind |-> "none", exc |-> "", content |-> <<>>]
    /\ o_escaped = FALSE
    /\ o_resets = 0
    /\ LoopIdle
    /\ PersistIdle
    /\ ToolIdle
    /\ LLMIdle
    /\ PruneIdle
    /\ QueueIdle

\* AWAIT_INPUT: a line of the human is appended
AwaitInput ==
    /\ o_pc = "await"
    /\ o_resets <= MaxResets
    /\ o_conversation' = Append(o_conversation, TextTurn("user", HumanText))
    /\ o_pc' = "invoke"
    /\ UNCHANGED <<o_tokens, o_outcome, o_escaped, o_resets>>
    /\ UNCHANGED <<loopVars, persistVars, toolVars, llmVars, pruneVars, queueVars>>

\* INVOKE_MODEL: the response is appended and its usage added
InvokeModel ==
    /\ o_pc = "invoke"
    /\ o_conversation' = Append(o_conversation, BlocksTurn("assistant", <<TextBlock(ModelText)>>))
    /\ \E usage \in Usages :
         /\ o_tokens' = o_tokens + usage
         /\ o_pc' = IF Overflows(o_tokens + usage) THEN "summarize" ELSE "await"
    /\ UNCHANGED <<o_outcome, o_escaped, o_resets>>
    /\ UNCHANGED <<loopVars, persistVars, toolVars, llmVars, pruneVars, queueVars>>

\* the mitigation: generate_restart_summary, then the trim, the fresh
\* counter and the way back to AWAIT_INPUT; an exception that leaves
\* generate_restart_summary ends the loop
Summarize ==
    /\ o_pc = "summarize"
    /\ \E outcome \in SummaryOutcomes :
         LET g == generate_restart_summary(o_conversation, outcome)
         IN /\ o_outcome' = outcome
            /\ o_escaped' = g.escaped
            /\ IF g.escaped
               THEN /\ o_conversation' = g.conversation
                    /\ o_pc' = "exited"
                    /\ UNCHANGED <<o_tokens, o_resets>>
               ELSE /\ o_conversation' = RestartTrim(g.conversation)
                    /\ o_tokens' = 0
                    /\ o_resets' = o_resets + 1
                    /\ o_pc' = "await"
    /\ UNCHANGED <<loopVars, persistVars, toolVars, llmVars, pruneVars, queueVars>>

OverflowNext ==
    \/ AwaitInput
    \/ InvokeModel
    \/ Summarize

SpecOverflow == OverflowInit /\ [][OverflowNext]_vars

(***************************************************************************)
(* Properties.                                                             *)
(***************************************************************************)
Ids(blocks, type) ==
    LET sel == SelectSeq(blocks, LAMBDA b : b.type = type)
    IN [i \in 1..Len(sel) |-> sel[i].id]

HasToolUse(t) == t.role = "assistant" /\ t.kind = "blocks" /\ Ids(t.blocks, "tool_use") # <<>>

\* every assistant turn with tool_use blocks is directly followed by a user
\* turn of tool_result blocks with the same ids in the same order
WellPaired(conv) ==
    \A i \in 1..Len(conv) :
        HasToolUse(conv[i]) =>
            /\ i < Len(conv)
            /\ conv[i + 1].role = "user"
            /\ conv[i + 1].kind = "blocks"
            /\ \A j \in 1..Len(conv[i + 1].blocks) : conv[i + 1].blocks[j].type = "tool_result"
            /\ Ids(conv[i + 1].blocks, "tool_result") = Ids(conv[i].blocks, "tool_use")

\* C1: in the conversation as it stands between the steps of the loop, and
\* in every conversation found in the persisted file, each assistant turn
\* with tool_use blocks is immediately followed by a user turn whose
\* tool_result blocks carry the same ids, one per tool_use, in order.
C1_Paired ==
    /\ WellPaired(conversation)
    /\ load_conversation(file).some => WellPaired(load_conversation(file).val)

\* a persisted conversation whose assistant turn asked for two tools
C1_Witness ==
    /\ pc = "loop"
    /\ load_conversation(file).some
    /\ \E i \in 1..Len(conversation) :
         HasToolUse(conversation[i]) /\ Len(Ids(conversation[i].blocks, "tool_use")) = 2

\* the count the governor should hold after the blocks of one response
RECURSIVE CountBlocks(_, _, _)
CountBlocks(blocks, n, c) ==
    IF n = 0 THEN c
    ELSE LET before == CountBlocks(blocks, n - 1, c)
             b == blocks[n]
         IN IF b.type # "tool_use" THEN before
            ELSE IF b.name = "ask_human" THEN 0
            ELSE before + 1

\* the count after turns from+1..n of a conversation: a line typed by the
\* human sets it to 0, tool_use blocks count as above
RECURSIVE CountTurns(_, _, _)
CountTurns(conv, from, n) ==
    IF n <= from THEN 0
    ELSE LET before == CountTurns(conv, from, n - 1)
             t == conv[n]
         IN IF t.role = "user" /\ t.kind = "text" THEN 0
            ELSE IF t.role = "assistant" /\ t.kind = "blocks" THEN CountBlocks(t.blocks, Len(t.blocks), before)
            ELSE before

\* tool calls this process has made in a row since the last human line or
\* ask_human call, read off the record of the conversation and the response
\* being dispatched
RunLength ==
    LET recorded == CountTurns(conversation, boot_len, Len(conversation))
    IN IF pc = "dispatch" THEN CountBlocks(response, block_idx - 1, recorded) ELSE recorded

C3_ForcedChoice ==
    (l_pc # "start" /\ l_pc # "idle" /\ l_tools = get_tool_list(l_team)) =>
        /\ l_tool_choice \in {"ask_human", "auto"}
        /\ (l_tool_choice = "ask_human") <=> (l_count >= default_max_consecutive_tools /\ ~l_team)

\* the loop has been entered and nothing has been read or asked yet
AtLoopEntry == pc = "loop" /\ tool_choice = "none"

\* the process is about to re-execute for a restart result without reset_context
RestartDue == pc = "execv" /\ Signal(tool_results[scan_idx]) = "restart"

\* some tool result of the conversation carries agent_initiated = true
CarriesAgentInitiated(conv) ==
    \E i \in 1..Len(conv) : \E j \in 1..Len(conv[i].blocks) :
        /\ conv[i].blocks[j].type = "tool_result"
        /\ conv[i].blocks[j].content = RestartPayload

\* the conversation ends with the user turn of the tool results just collected
EndsWithResults == conversation # <<>> /\ conversation[Len(conversation)] = BlocksTurn("user", tool_results)

ResetDispatched == \E j \in 1..Len(tool_results) : Signal(tool_results[j]) = "reset"

\* C5: when a tool result of the turn carries restart and reset_context, the
\* process re-executes with no persisted file left behind (nothing saved,
\* an existing file deleted), and the boot that follows a reset starts with
\* an empty conversation and prompts the human first.
C5_ResetScenario ==
    /\ (pc = "execv" /\ ResetDispatched) => (~file.exists /\ ~save_ok)
    /\ (AtLoopEntry /\ started_by = "reset") => (conversation = <<>> /\ read_user_input)

\* position of the last user turn of tool results in a conversation, 0 when
\* there is none
LastResultsTurn(conv) ==
    LET at == {i \in 1..Len(conv) : conv[i].role = "user" /\ conv[i].kind = "blocks"}
    IN IF at = {} THEN 0 ELSE CHOOSE i \in at : \A k \in at : k <= i

\* the last tool results of a conversation carry agent_initiated = true
LastResultsAgentInitiated(conv) ==
    /\ LastResultsTurn(conv) # 0
    /\ \E j \in 1..Len(conv[LastResultsTurn(conv)].blocks) :
         conv[LastResultsTurn(conv)].blocks[j].content = RestartPayload

\* C6: at the entry of the loop, (a) with no persisted state the conversation
\* is empty and the human is prompted first; (b) with persisted state whose
\* last tool results carry agent_initiated = true the conversation is the
\* resumed one plus exactly one notice and the model is invoked without a
\* prompt; (c) with persisted state whose last tool results do not carry it
\* the conversation is the resumed one, without notice, and the human is
\* prompted first.
C6_BootCases ==
    AtLoopEntry =>
        /\ ~loaded.some => (conversation = <<>> /\ read_user_input)
        /\ (loaded.some /\ LastResultsAgentInitiated(loaded.val)) =>
              /\ conversation = Append(loaded.val, TextTurn("user", Notice))
              /\ ~read_user_input
        /\ (loaded.some /\ ~LastResultsAgentInitiated(loaded.val)) =>
              /\ conversation = loaded.val
              /\ read_user_input

\* C7: save_conversation returns True exactly when the write succeeded, and
\* load_conversation after a successful save returns a conversation equal to
\* the one saved, the empty one included, whatever the file held before.
C7_RoundTrip ==
    /\ p_pc \in {"saved", "loaded"} => (p_returned <=> p_outcome = "ok")
    /\ (p_pc = "loaded" /\ p_returned) => p_loaded = [some |-> TRUE, val |-> p_conversation]

\* a conversation with tool_use and tool_result blocks saved over an older
\* file and loaded back
C7_Witness ==
    /\ p_pc = "loaded"
    /\ p_returned
    /\ p_loaded.some
    /\ Len(p_conversation) = MaxPersistLen
    /\ HasToolUse(p_conversation[1])
    /\ p_conversation[2].kind = "blocks"
    /\ p_conversation[2].blocks # <<>>

\* the callable of a registered tool was called and raised
RaisedInTool == t_pc = "done" /\ t_name \in Names(t_tools) /\ t_behaviour.kind = "raise"

\* C8 as stated: whatever the type of the exception a registered tool's
\* callable raises, execute_tool returns the exception's string and nothing
\* propagates.
C8_NeverRaisesAsStated ==
    RaisedInTool => (~t_out.propagated /\ t_out.result = t_behaviour.value)

\* C8 amended: when a registered tool's callable raises an exception that
\* derives from Exception, execute_tool returns the exception's string and
\* nothing propagates; an exception that derives from BaseException only
\* (KeyboardInterrupt, SystemExit) propagates out of execute_tool.
C8_NeverRaises ==
    RaisedInTool =>
        /\ t_out.called
        /\ t_behaviour.exc \in {"ValueError", "RuntimeError", "OSError"} =>
              (~t_out.propagated /\ t_out.result = t_behaviour.value)
        /\ t_behaviour.exc \in {"KeyboardInterrupt", "SystemExit"} => t_out.propagated

\* a registered tool raised ValueError and its message came back as the result
C8_Witness ==
    /\ RaisedInTool
    /\ t_behaviour.exc = "ValueError"
    /\ t_out.result = Boom
    /\ ~t_out.propagated

\* C9: execute_tool with a name no registered tool has returns the string
\* "tool not found", calls no tool callable, raises nothing and leaves the
\* context file as it was.
C9_UnknownTool ==
    (t_pc = "done" /\ t_name \notin Names(t_tools)) =>
        /\ t_out.result = "tool not found"
        /\ ~t_out.called
        /\ ~t_out.propagated
        /\ t_calls = 0
        /\ t_out.file = t_file

\* a name missing from a registry that is not empty, with a context file on
\* disk that a callable would have deleted
C9_Witness ==
    /\ t_pc = "done"
    /\ t_name \notin Names(t_tools)
    /\ t_tools # <<>>
    /\ t_file.exists
    /\ t_behaviour.file # t_file
    /\ t_out.result = ToolNotFound

\* every attempt so far failed with a transient status
AllTransient ==
    \A i \in 1..Len(l_log) : l_log[i].kind = "status_error" /\ l_log[i].status \in {429, 529, 500}

\* run_inference has returned or raised
InferenceOver == l_pc \in {"returned", "runtime_error", "value_error", "propagated"}

\* C10: when every call to the completion API fails with a transient status
\* (429, 529, 500), run_inference ends only after exactly 5 attempts, and
\* ends by raising RuntimeError; in no case is there a 6th attempt, every
\* attempt carries the tool_choice fixed before the first one, and
\* run_inference returns only after an attempt that succeeded.
C10_RetryCeiling ==
    /\ Len(l_log) <= 5
    /\ (InferenceOver /\ AllTransient) => (l_pc = "runtime_error" /\ Len(l_log) = 5)
    /\ (l_pc = "calling" /\ AllTransient /\ Len(l_log) < 5) => ~success
    /\ \A i \in 1..Len(l_log) : l_log[i].tool_choice = l_tool_choice
    /\ l_pc = "returned" => (l_log # <<>> /\ l_log[Len(l_log)].kind = "ok")

\* five attempts failed with transient statuses of all three kinds and
\* RuntimeError was raised
C10_Witness ==
    /\ l_pc = "runtime_error"
    /\ Len(l_log) = 5
    /\ AllTransient
    /\ {l_log[i].status : i \in 1..Len(l_log)} = {429, 529, 500}

\* C11: an attempt that fails with a non-transient status (401) is the last
\* attempt of the invocation: nothing is tried after it.
C11_NonTransientNotRetried ==
    \A i \in 1..Len(l_log) :
        (l_log[i].kind = "status_error" /\ l_log[i].status \notin {429, 529, 500}) => i = Len(l_log)

\* markers written after another key of their block, in the blocks that
\* follow block j of turn i
MarkersAfter(conv, i, j) ==
    Cardinality({p \in {<<a, b>> : a \in 1..Len(conv), b \in 1..2} :
                    /\ p[2] <= Len(conv[p[1]].blocks)
                    /\ conv[p[1]].blocks[p[2]].cc = "last"
                    /\ (p[1] > i \/ (p[1] = i /\ p[2] > j))})

\* the conversation with all but the three most recent of these markers
\* taken out and nothing else changed
KeepsLastThree(conv) ==
    [i \in 1..Len(conv) |->
        CTurn(conv[i].role,
              [j \in 1..Len(conv[i].blocks) |->
                  CBlock(conv[i].blocks[j].text,
                         IF conv[i].blocks[j].cc = "last" /\ MarkersAfter(conv, i, j) >= 3
                         THEN "none" ELSE conv[i].blocks[j].cc)])]

\* all cache_control markers of a conversation, wherever they stand
Markers(conv) ==
    Cardinality({p \in {<<a, b>> : a \in 1..Len(conv), b \in 1..2} :
                    p[2] <= Len(conv[p[1]].blocks) /\ conv[p[1]].blocks[p[2]].cc # "none"})

\* C12: the conversation returned keeps exactly the min(n, 3) most recent
\* of the n cache-control markers, has none of the earlier ones, and has
\* the same turns and the same other content as the conversation given.
C12_KeepsLastThree ==
    r_pc = "pruned" => (r_out.ok /\ r_out.val = KeepsLastThree(r_before))

\* C13: a conversation with at most 3 cache-control markers is returned
\* unchanged, and pruning the result of a pruning returns that result.
C13_Idempotent ==
    /\ (r_pc \in {"pruned", "again"} /\ Markers(r_before) <= 3) => r_out = [ok |-> TRUE, val |-> r_before]
    /\ r_pc = "again" => r_again = r_out

\* a conversation with more than three markers was pruned to something
\* else, and pruning that again changed nothing
C13_Witness ==
    /\ r_pc = "again"
    /\ Markers(r_before) > 3
    /\ r_out.val # r_before
    /\ r_again = r_out

C15_RestartBranch ==
    /\ pc = "execv" => Signal(tool_results[scan_idx]) = (IF ResetDispatched THEN "reset" ELSE "restart")
    /\ (pc = "loop" /\ tool_results # <<>>) =>
          \A j \in 1..Len(tool_results) : Signal(tool_results[j]) = "none"

\* content that is not JSON, not a JSON object, or an object without a
\* truthy restart field
Malformed(c) == JsonLoads(c).kind # "dict" \/ ~JsonLoads(c).restart

\* C16: a tool result with malformed content never makes the process save
\* or re-execute; the tool-result turn is in the conversation while the
\* results are scanned, the results after a malformed one are scanned too,
\* and the loop goes on when all of them are malformed.
C16_MalformedIgnored ==
    /\ pc = "execv" => ~Malformed(tool_results[scan_idx].content)
    /\ pc \in {"scan", "execv"} =>
          /\ EndsWithResults
          /\ \A j \in 1..(scan_idx - 1) : Malformed(tool_results[j].content)
    /\ pc = "scan" => (~is_restarting /\ ~save_ok)
    /\ (pc = "loop" /\ tool_results # <<>>) =>
          /\ scan_idx = Len(tool_results) + 1
          /\ \A j \in 1..Len(tool_results) : Malformed(tool_results[j].content)
          /\ ~is_restarting /\ ~save_ok

\* a result that is not JSON was passed over and the restart result after
\* it was acted on
C16_Witness ==
    /\ pc = "execv"
    /\ scan_idx > 1
    /\ JsonLoads(tool_results[1].content).kind = "error"
    /\ EndsWithResults

\* the scan stands at a restart result without reset_context
ScanningRestart ==
    /\ pc = "scan"
    /\ scan_idx <= Len(tool_results)
    /\ Signal(tool_results[scan_idx]) = "restart"

\* C20: acting on a restart result, the loop sets the restart flag and goes
\* on to re-execute whether the save succeeded or not; a failed save leaves
\* the file untouched or unloadable and ends nothing; the process that is
\* about to re-execute does re-execute.
C20_FailedSaveSwallowed ==
    [][/\ ScanningRestart =>
             /\ pc' = "execv"
             /\ is_restarting'
             /\ exit_code' = exit_code
             /\ conversation' = conversation
             /\ ~save_ok' => (file' = file \/ load_conversation(file') = None)
       /\ pc = "execv" => pc' = "boot"]_vars

\* the save failed part-way and the process is about to re-execute
C20_Witness ==
    /\ RestartDue
    /\ ~save_ok
    /\ is_restarting
    /\ file.exists
    /\ load_conversation(file) = None

\* the process leaves the loop for an exception: any exit but the one taken
\* at the prompt
ExitsOnException == pc # "exited" /\ pc' = "exited" /\ ~(pc = "loop" /\ read_user_input)

ExitsFromPrompt == pc = "loop" /\ read_user_input /\ pc' = "exited"

\* C19 as stated: an exit from the prompt makes no model call and no tool
\* call, has status 0, and leaves no persisted file.
C19_CleanShutdownAsStated ==
    [][ExitsFromPrompt =>
          /\ tool_choice' = tool_choice /\ response' = response /\ tool_calls' = tool_calls
          /\ exit_code' = 0
          /\ file' = NoFile]_vars

\* C19 amended: an exit from the prompt makes no model call and no tool
\* call, has status 0, and leaves no persisted file unless the removal of
\* the file failed, in which case the file is what it was.
C19_CleanShutdown ==
    [][ExitsFromPrompt =>
          /\ tool_choice' = tool_choice /\ response' = response /\ tool_calls' = tool_calls
          /\ ~is_error_exit'
          /\ exit_code' = 0
          /\ file' = (IF remove_failed' THEN file ELSE NoFile)]_vars

\* a process that had resumed a persisted conversation exited from the
\* prompt and its exit handler removed the file
C19_Witness ==
    /\ pc = "exited"
    /\ exit_code = 0
    /\ loaded.some
    /\ ~remove_failed
    /\ file = NoFile

\* C18 as stated: after cleanup_context the file is gone exactly when
\* neither flag was set (or there was none); with a flag set it is what it was.
C18_ExitHandlerAsStated ==
    p_pc = "cleaned" =>
        p_file = (IF p_restarting \/ p_error_exit THEN p_before ELSE NoFile)

\* C18 amended: cleanup_context tries to remove the file exactly when
\* neither flag is set and the file exists; the file is then gone unless the
\* removal failed, and in every other case it is what it was; a removal
\* fails only when one is tried.
C18_ExitHandler ==
    p_pc = "cleaned" =>
        /\ p_file = (IF p_restarting \/ p_error_exit \/ p_remove_failed THEN p_before ELSE NoFile)
        /\ p_remove_failed => (p_before.exists /\ ~p_restarting /\ ~p_error_exit)

\* the handler ran with the restart flag set on a file just saved and left it
C18_Witness ==
    /\ p_pc = "cleaned"
    /\ p_restarting
    /\ ~p_error_exit
    /\ p_returned
    /\ p_file = p_before
    /\ p_file.exists

\* the file cannot be resumed from: missing, unreadable, or not a pickle
\* of a conversation
Unloadable(f) == ~f.exists \/ f = Unreadable \/ ~Loads(f.data).ok

\* C21: load_conversation returns None for a file that is missing,
\* unreadable or corrupt, and a process that boots on such a file enters the
\* loop with an empty conversation, prompts the human, and has not exited.
C21_FailingLoad ==
    /\ \A f \in StaleFiles : Unloadable(f) => load_conversation(f) = None
    /\ AtLoopEntry =>
          /\ loaded = load_conversation(file)
          /\ Unloadable(file) =>
                /\ loaded = None
                /\ conversation = <<>>
                /\ read_user_input
                /\ exit_code = -1
                /\ ~is_error_exit

\* a process re-executed after a save that failed part-way, found the
\* half-written file, and entered the loop with an empty conversation
C21_Witness ==
    /\ AtLoopEntry
    /\ started_by = "restart"
    /\ file.exists
    /\ ~Loads(file.data).ok
    /\ loaded = None
    /\ conversation = <<>>

\* the step is the consumer's get returning to its caller
GetReturns == q_pc["loop"] \in {"get", "waiting"} /\ q_pc'["loop"] = "idle"

\* C22: add_to_message_queue returns True whatever the length of the queue
\* and its put can always be done at once; a call of get_from_message_queue
\* with its defaults can always be done at once and never waits, returning
\* (None, False) and leaving the queue empty when it is empty, and
\* otherwise (oldest message, True) with exactly that message removed.
C22_QueueContract ==
    /\ [](q_add_ok)
    /\ [](\A p \in Producers : q_pc[p] = "put" => ENABLED Put(p))
    /\ []((q_pc["loop"] = "get" /\ ~q_call.block) => ENABLED Get)
    /\ [][/\ \A p \in Producers :
                (q_pc[p] = "put" /\ q_pc'[p] = "idle") => q_queue' = Append(q_queue, q_item[p])
          /\ (q_pc["loop"] = "get" /\ ~q_call.block /\ q_pc'["loop"] # "get")
                => /\ GetReturns
                   /\ IF q_queue = <<>>
                      THEN q_get' = [message |-> NoMessage, found |-> FALSE] /\ q_queue' = <<>>
                      ELSE /\ q_get' = [message |-> Head(q_queue), found |-> TRUE]
                           /\ q_queue' = Tail(q_queue)]_vars

\* a default call on the emptied queue has returned (None, False), after
\* messages were added and taken
C22_Witness ==
    /\ q_pc # <<>>
    /\ q_pc["loop"] = "idle"
    /\ ~q_call.block
    /\ q_get = [message |-> NoMessage, found |-> FALSE]
    /\ q_queue = <<>>
    /\ Len(q_got) >= 3

\* the messages of s that producer w made
SentBy(s, w) == SelectSeq(s, LAMBDA m : m[2] = w)

\* C23: the messages taken so far, followed by those still queued, are the
\* messages in the order of their enqueue; the messages of one worker are
\* taken in the order that worker added them.
C23_FIFO ==
    /\ q_sent = q_got \o q_queue
    /\ \A w \in Workers :
          \A i \in DOMAIN SentBy(q_got, w) : SentBy(q_got, w)[i] = WorkerMessage(w, i)

\* two messages of one worker were taken with a message of another producer
\* between them, while the other worker is inside a call
C23_Witness ==
    /\ q_pc # <<>>
    /\ q_pc["w2"] = "put"
    /\ \E i, j, k \in DOMAIN q_got :
          /\ i < j /\ j < k
          /\ q_got[i] = WorkerMessage("w1", 1)
          /\ q_got[j][2] # "w1"
          /\ q_got[k] = WorkerMessage("w1", 2)

\* how often m occurs in s
Count(s, m) == Cardinality({i \in DOMAIN s : s[i] = m})

\* every producer has finished
Quiet ==
    /\ \A p \in Producers : q_pc[p] = "idle"
    /\ \A w \in Workers : q_next[w] > MaxSends
    /\ q_requests = MaxRequests

\* C24: every message is taken or still queued exactly as often as it was
\* enqueued; every message a worker has added is there exactly once; once
\* the producers have finished and the queue is drained, every message has
\* been taken exactly once.
C24_NoLossNoDup ==
    /\ \A i \in DOMAIN q_sent :
          Count(q_sent, q_sent[i]) = Count(q_got, q_sent[i]) + Count(q_queue, q_sent[i])
    /\ Len(q_sent) = Len(q_got) + Len(q_queue)
    /\ \A w \in Workers : \A i \in 1..MaxSends :
          Count(q_got, WorkerMessage(w, i)) + Count(q_queue, WorkerMessage(w, i))
              = IF i < q_next[w] THEN 1 ELSE 0
    /\ (Quiet /\ q_queue = <<>>)
          => /\ Len(q_got) = Cardinality(Workers) * MaxSends + q_acks
             /\ \A w \in Workers : \A i \in 1..MaxSends : Count(q_got, WorkerMessage(w, i)) = 1

\* the producers have finished and the consumer has drained the queue
C24_Witness ==
    /\ q_pc # <<>>
    /\ Quiet
    /\ q_queue = <<>>
    /\ q_acks >= 1
    /\ Len(q_got) = Cardinality(Workers) * MaxSends + q_acks
    /\ q_pc["loop"] = "idle"
    /\ ~q_get.found

\* the messages of s that the /send-message handler formatted
ApiMessages(s) == SelectSeq(s, LAMBDA m : m[1] = "[Direct message from ")

\* the piece is part of the message
Contains(m, piece) == \E i \in DOMAIN m : m[i] = piece

TEAM_ONLY_TOOLS == {"send_group_message", "send_agent_message", "wait", "report_suspicious_activity"}

base_tools == {"read_file", "edit_file", "delete_file", "list_files"}

\* C25: a request is prepared with the registry get_tool_list built for its
\* mode: no name occurs twice in it, each team-only tool is in it iff team
\* mode is on, and the base tools are in it in both modes.
C25_ToolRegistry ==
    (l_pc # "idle" /\ l_tools = get_tool_list(l_team)) =>
        /\ \A i, j \in DOMAIN l_tools : l_tools[i] = l_tools[j] => i = j
        /\ \A name \in TEAM_ONLY_TOOLS : (name \in Names(l_tools)) <=> l_team
        /\ base_tools \subseteq Names(l_tools)

\* a request was prepared in team mode with the registry of that mode
C25_Witness ==
    /\ l_pc = "calling"
    /\ l_team
    /\ l_tools = get_tool_list(TRUE)
    /\ TEAM_ONLY_TOOLS \subseteq Names(l_tools)
\* the attempts so far: transient failures, then a success
TransientThenOk ==
    /\ l_log # <<>>
    /\ l_log[Len(l_log)].kind = "ok"
    /\ \A i \in 1..(Len(l_log) - 1) :
          l_log[i].kind = "status_error" /\ l_log[i].status \in TransientStatus

\* C29: no call of the API follows a successful one; after j transient
\* failures and a success, j < 5, the calls made are j + 1, and what
\* run_inference returns is the content of that response with the sum of
\* its input and output tokens.
C29_FirstSuccess ==
    /\ \A i \in 1..Len(l_log) : l_log[i].kind = "ok" => i = Len(l_log)
    /\ TransientThenOk =>
          /\ success
          /\ Len(l_log) <= max_attempts
          /\ llm_requests = Len(l_log)
          /\ l_pc \in {"calling", "returned", "value_error"}
          /\ l_pc = "value_error" => ~l_response.truthy
          /\ l_pc = "returned" =>
                /\ l_response \in LLMResponses
                /\ l_returned.content = l_response.content
                /\ l_returned.total_token_usage = l_response.input_tokens + l_response.output_tokens

\* two transient failures, then a response with 100 input and 50 output
\* tokens, returned with a usage of 150
C29_Witness ==
    /\ l_pc = "returned"
    /\ TransientThenOk
    /\ Len(l_log) = 3
    /\ l_response.input_tokens = 100
    /\ l_returned.total_token_usage = 150
\* the tool_use blocks of the response: there is one, and all name ask_human
AnsweredWithEscalation(resp) ==
    /\ \E i \in DOMAIN resp : resp[i].type = "tool_use"
    /\ \A i \in DOMAIN resp : resp[i].type = "tool_use" => resp[i].name = "ask_human"

\* the step handles an ask_human block of the response
HandlesAskHuman ==
    /\ pc = "dispatch"
    /\ block_idx <= Len(response)
    /\ response[block_idx].type = "tool_use"
    /\ response[block_idx].name = "ask_human"
    /\ block_idx' = block_idx + 1 \/ pc' = "exited"

\* the step invokes the model in the process whose latest invocation was forced
InvokesAfterForced == InferenceDue /\ tool_choice = "ask_human" /\ pc' \in {"dispatch", "exited"}

\* C27: handling an ask_human block sets the governor's count to 0, whatever
\* the tool choice of the invocation was; the invocation that follows a
\* forced one answered with ask_human is made with automatic tool choice.
C27_ForcingLastsOneCall ==
    [][/\ HandlesAskHuman => consecutive_tool_count' = 0
       /\ (InvokesAfterForced /\ AnsweredWithEscalation(response))
             => (consecutive_tool_count = 0 /\ tool_choice' = "auto")]_vars

\* a forced invocation was answered with ask_human, the results were
\* appended without a prompt, and the model was invoked again with
\* automatic tool choice
C27_Witness ==
    /\ pc = "dispatch"
    /\ tool_choice = "auto"
    /\ consecutive_tool_count = 0
    /\ Len(conversation) >= 5
    /\ conversation[Len(conversation) - 1].role = "assistant"
    /\ AnsweredWithEscalation(conversation[Len(conversation) - 1].blocks)
    /\ Len(conversation[Len(conversation) - 3].blocks) >= max_consecutive_tools
\* the step leaves the head of the while loop by the prompt: a line is read,
\* or the input ends and the process exits with status 0
ReadsHumanInput == pc = "loop" /\ (pc' = "infer" \/ (pc' = "exited" /\ exit_code' = 0))

\* the step leaves the head of the while loop by invoking the model
InvokesUnprompted == pc = "loop" /\ (pc' = "dispatch" \/ (pc' = "exited" /\ exit_code' = 1))

\* the prompt is due at the head of the loop: the latest response of this
\* process held no tool_use block, or the process has not invoked the model
\* and did not boot from an agent-initiated restart
PromptDue ==
    IF tool_choice # "none"
    THEN Ids(response, "tool_use") = <<>>
    ELSE ~(loaded.some /\ check_for_agent_restart(loaded.val))

\* C28: the loop leaves its head by the prompt iff the latest response held
\* no tool_use block (or the process is fresh and did not boot from an
\* agent-initiated restart); otherwise it invokes the model on the
\* conversation as it is, which after a response ends with the tool results.
C28_InputGating ==
    [][(pc = "loop" /\ pc' # "loop") =>
          /\ ReadsHumanInput <=> PromptDue
          /\ InvokesUnprompted <=> ~PromptDue
          /\ (InvokesUnprompted /\ tool_choice # "none") =>
                /\ conversation' = conversation
                /\ conversation[Len(conversation)] = BlocksTurn("user", tool_results)
                /\ conversation[Len(conversation) - 1] = BlocksTurn("assistant", response)]_vars

\* the model is invoked on the tool results of its previous response, in a
\* conversation that began with a line the human typed
C28_Witness ==
    /\ pc = "dispatch"
    /\ block_idx = 1
    /\ started_by = "operator"
    /\ Len(conversation) = 3
    /\ conversation[1] = TextTurn("user", HumanText)
    /\ HasToolUse(conversation[2])
    /\ conversation[3].role = "user"
    /\ conversation[3].kind = "blocks"
\* the step is the mitigation
Mitigates == o_pc = "summarize" /\ o_pc' # "summarize"

\* the history is just the turn, the counter is fresh, the loop awaits input
ResetTo(turn) ==
    /\ o_conversation' = <<turn>>
    /\ o_tokens' = 0
    /\ o_pc' = "await"
    /\ ~o_escaped'

\* C26 as stated: the mitigation runs exactly when the usage added up
\* exceeds the ceiling; it leaves the summary the model wrote as the whole
\* history, resets the counter and goes back to awaiting input; when the
\* summary call raises, the fixed summary takes its place and no exception
\* escapes.
C26_OverflowAsStated ==
    /\ [](o_pc = "summarize" <=> (o_pc \in {"await", "invoke", "summarize"} /\ Overflows(o_tokens)))
    /\ [][Mitigates =>
            IF o_outcome'.kind = "return"
            THEN ResetTo(BlocksTurn("assistant", o_outcome'.content))
            ELSE ResetTo(TextTurn("assistant", FallbackSummary))]_vars

\* C26: the mitigation runs exactly when the usage added up exceeds the
\* ceiling; the summary the model wrote becomes the whole history when
\* its response begins with a text block; the fixed summary does when the
\* call raises an exception derived from Exception or the response does
\* not begin with a text block; either way the counter is reset, the loop
\* goes back to awaiting input and no exception escapes.  An interrupt of
\* the call escapes.
C26_Overflow ==
    /\ [](o_pc = "summarize" <=> (o_pc \in {"await", "invoke", "summarize"} /\ Overflows(o_tokens)))
    /\ [][Mitigates =>
            IF o_outcome'.kind = "return" /\ FirstBlockHasText(o_outcome'.content)
            THEN ResetTo(BlocksTurn("assistant", o_outcome'.content))
            ELSE IF o_outcome'.exc \in BaseOnlyClasses
            THEN o_escaped' /\ o_pc' = "exited"
            ELSE ResetTo(TextTurn("assistant", FallbackSummary))]_vars

\* the summary call returned a response without a leading text block, and
\* the fixed summary is the whole history of the loop awaiting input
C26_Witness ==
    /\ o_pc = "await"
    /\ o_resets = 2
    /\ o_outcome.kind = "return"
    /\ ~FirstBlockHasText(o_outcome.content)
    /\ o_conversation = <<TextTurn("assistant", FallbackSummary)>>
    /\ o_tokens = 0
\* C39: an attempt that ends with an exception other than APIStatusError is
\* the last attempt: the exception leaves run_inference, which returns
\* nothing; the counter of requests has advanced once for each
\* APIStatusError and for nothing else.
C39_OtherErrorPropagates ==
    /\ \A i \in 1..Len(l_log) :
          l_log[i].kind = "other_error" => (i = Len(l_log) /\ l_pc = "propagated")
    /\ l_pc = "propagated" =>
          /\ l_log[Len(l_log)].kind = "other_error"
          /\ ~success
          /\ l_returned.total_token_usage = -1
    /\ llm_requests = 1 + Cardinality({i \in 1..Len(l_log) : l_log[i].kind = "status_error"})

\* two status errors, then a connection failure on the third attempt
C39_Witness ==
    /\ l_pc = "propagated"
    /\ Len(l_log) = 3
    /\ llm_requests = 3
    /\ l_log[3].kind = "other_error"
\* the process keeps its memory over the step
SameProcess == pc \notin {"boot", "execv", "exited"} /\ pc' # "boot"

\* C31: a step of a running process leaves the conversation as it is or
\* appends to it, and what it appends is what the loop has just processed:
\* the line read at the prompt, or the response followed by the results of
\* its tools when it has any.
C31_AppendOnly ==
    [][SameProcess =>
          \/ conversation' = conversation
          \/ pc = "loop" /\ conversation' = Append(conversation, TextTurn("user", HumanText))
          \/ /\ pc = "dispatch"
             /\ Ids(response, "tool_use") = <<>>
             /\ conversation' = Append(conversation, BlocksTurn("assistant", response))
          \/ /\ pc = "dispatch"
             /\ Len(tool_results) = Len(Ids(response, "tool_use"))
             /\ tool_results # <<>>
             /\ conversation' = conversation \o <<BlocksTurn("assistant", response),
                                                  BlocksTurn("user", tool_results)>>]_vars

\* a line, a response with tools and their results, a response without
\* tools and another line were appended in that order by one process
C31_Witness ==
    /\ pc = "infer"
    /\ relaunches = 0
    /\ started_by = "operator"
    /\ Len(conversation) = 5
    /\ conversation[1] = TextTurn("user", HumanText)
    /\ HasToolUse(conversation[2])
    /\ conversation[3].role = "user" /\ conversation[3].kind = "blocks"
    /\ conversation[4].role = "assistant" /\ ~HasToolUse(conversation[4])
    /\ conversation[5] = TextTurn("user", HumanText)
\* the process is about to replace its image
Reexecutes == pc # "execv" /\ pc' = "execv"

\* C32: on the restart path and on the reset path alike the flag
\* sys.is_restarting is set by the step that decides to re-execute, it is
\* set for as long as the process waits for its image to be replaced, the
\* replacement is the only thing that can follow (no exit, no exit
\* handler), it leaves the file as it is, and the new image runs the same
\* interpreter with the same sys.argv.
C32_FlagBeforeExec ==
    /\ [](pc = "execv" => is_restarting)
    /\ [][Reexecutes => (pc = "scan" /\ is_restarting'
                         /\ Signal(tool_results[scan_idx]) \in {"restart", "reset"})]_vars
    /\ [][pc = "execv" => /\ pc' = "boot"
                          /\ file' = file
                          /\ sys_executable' = sys_executable
                          /\ sys_argv' = sys_argv
                          /\ exit_code' = exit_code]_vars

\* a process started with an argument has been re-executed for a restart
\* and finds the file its predecessor wrote
C32_Witness ==
    /\ pc = "boot"
    /\ started_by = "restart"
    /\ file # NoFile
    /\ handed_over # None
    /\ sys_argv = Launch
    /\ sys_executable = Python
\* the first model invocation of a process
FirstInvocation == tool_choice = "none" /\ tool_choice' # "none"

\* C33: a process that has not invoked the model yet has a count of 0,
\* however it was started and whatever it has loaded, and its first
\* invocation leaves the choice of tool to the model.
C33_FreshGovernor ==
    /\ [](tool_choice = "none" /\ pc \in {"loop", "infer"} => consecutive_tool_count = 0)
    /\ [][FirstInvocation => tool_choice' = "auto"]_vars

\* a process re-executed for a restart has invoked the model for the first
\* time, unforced and without a prompt, on a conversation in which the
\* governor had reached its threshold before the restart
C33_Witness ==
    /\ pc = "dispatch"
    /\ started_by = "restart"
    /\ tool_choice = "auto"
    /\ block_idx = 1
    /\ loaded.some
    /\ conversation[Len(conversation)] = TextTurn("user", Notice)
    /\ CountBlocks(conversation[2].blocks, Len(conversation[2].blocks), 0) >= max_consecutive_tools - 1
    /\ HasToolUse(conversation[4])
\* how the dispatch of an ask_human block ended
AskHumanOutcome ==
    CASE "ask_human" \notin Names(t_tools) -> "not_found"
      [] t_behaviour.kind = "raise" -> "raised"
      [] t_behaviour.value = NoHumanResponse -> "no_answer"
      [] OTHER -> "answered"

\* C34: once the loop has handled a tool_use block named ask_human the
\* governor's count is 0, whatever the count was and however the dispatch
\* ended: the tool is not registered, its callable raised (caught or not),
\* nobody answered, or an answer was typed.
C34_ResetBeforeDispatch ==
    (t_pc = "done" /\ t_name = "ask_human") =>
        /\ t_count = 0
        /\ AskHumanOutcome = "not_found" => (t_out.result = ToolNotFound /\ ~t_out.called)
        /\ AskHumanOutcome = "raised" => (t_out.called /\ t_out.result # HumanAnswer)
        /\ AskHumanOutcome = "no_answer" => t_out.result = NoHumanResponse

\* the count had reached the threshold, the block named ask_human, the
\* registry was not empty and held no ask_human: "tool not found", count 0
C34_Witness ==
    /\ t_pc = "done"
    /\ t_name = "ask_human"
    /\ t_count_before = max_consecutive_tools
    /\ t_count = 0
    /\ t_tools # <<>>
    /\ AskHumanOutcome = "not_found"
    /\ t_out.result = ToolNotFound
\* names of the registered tools a sequence of blocks asks for, in block order
CallablesOf(blocks) ==
    LET sel == SelectSeq(blocks, LAMBDA b : b.type = "tool_use" /\ b.name \in Names(AgentTools))
    IN [i \in 1..Len(sel) |-> sel[i].name]

\* the last n entries of a sequence
LastOf(seq, n) == SubSeq(seq, Len(seq) - n + 1, Len(seq))

\* the blocks of the response the for loop has gone through
Handled == SubSeq(response, 1, block_idx - 1)

\* C35: while the for loop goes through a response the assistant turn has
\* not been appended and the results collected are those of the blocks gone
\* through, in block order; once the loop scans for a restart signal, and
\* when the process re-executes, every tool_use block of the response has
\* been dispatched (the callables of the registered ones have run, in block
\* order, also those after a block that asked for the restart) and the
\* conversation ends with the assistant turn followed by the one turn that
\* holds all the results.
C35_AllBlocksFirst ==
    /\ pc = "dispatch" =>
          /\ conversation[Len(conversation)].role = "user"
          /\ Ids(tool_results, "tool_result") = Ids(Handled, "tool_use")
          /\ LastOf(tool_calls, Len(CallablesOf(Handled))) = CallablesOf(Handled)
    /\ pc \in {"scan", "execv"} =>
          /\ block_idx = Len(response) + 1
          /\ Ids(tool_results, "tool_result") = Ids(response, "tool_use")
          /\ LastOf(tool_calls, Len(CallablesOf(response))) = CallablesOf(response)
          /\ LastOf(conversation, 2) = <<BlocksTurn("assistant", response), BlocksTurn("user", tool_results)>>

\* the first block of a response asked for a restart, the block after it
\* was dispatched all the same, and the process re-executes on the signal of
\* the first
C35_Witness ==
    /\ pc = "execv"
    /\ Len(response) = 2
    /\ response[1].type = "tool_use" /\ response[1].name = "restart_program"
    /\ response[2].type = "tool_use" /\ response[2].name = "list_files"
    /\ tool_calls = <<"restart_program", "list_files">>
    /\ Len(tool_results) = 2
    /\ scan_idx = 1
\* the conversation ends with a user turn of tool results one of which asks
\* for a restart without reset_context
EndsWithRestartRequest(conv) ==
    /\ conv # <<>>
    /\ conv[Len(conv)].role = "user"
    /\ conv[Len(conv)].kind = "blocks"
    /\ \A j \in 1..Len(conv[Len(conv)].blocks) : conv[Len(conv)].blocks[j].type = "tool_result"
    /\ \E j \in 1..Len(conv[Len(conv)].blocks) :
         LET payload == JsonLoads(conv[Len(conv)].blocks[j].content)
         IN payload.kind = "dict" /\ payload.restart /\ ~payload.reset_context

\* the step writes the file: afterwards there is a file that differs from
\* what was there
WritesFile == file'.exists /\ file' # file

\* C36: a conversation found in the file ends with a user turn of tool
\* results one of which asks for a restart without reset_context, and the
\* only step that writes the file is the scan acting on such a result, on
\* its way to the re-execution: no step that goes back to the head of the
\* loop, exits, or acts on a reset writes it.
C36_PersistOnlyOnRestart ==
    /\ [](load_conversation(file).some => EndsWithRestartRequest(load_conversation(file).val))
    /\ [](persisted.some => (EndsWithRestartRequest(persisted.val) /\ load_conversation(file) = persisted))
    /\ [][WritesFile => /\ ScanningRestart
                        /\ pc' = "execv"
                        /\ EndsWithRestartRequest(conversation)
                        /\ save_ok' => load_conversation(file') = [some |-> TRUE, val |-> conversation]]_vars

\* the file written for a restart is still there, as written, when the
\* process that resumed from it has gone through another turn with tools
C36_Witness ==
    /\ pc = "loop"
    /\ started_by = "restart"
    /\ persisted.some
    /\ load_conversation(file) = persisted
    /\ Len(conversation) >= Len(persisted.val) + 2
    /\ tool_results # <<>>
    /\ ~EndsWithRestartRequest(conversation)
\* the tools whose results ask for a restart
RestartTools == {"restart_program", "reset_context"}

\* names of the tool_use blocks of the response, in block order
ToolNames(blocks) ==
    LET sel == SelectSeq(blocks, LAMBDA b : b.type = "tool_use")
    IN [i \in 1..Len(sel) |-> sel[i].name]

\* C37 as stated: the process re-executes only in a turn in which
\* restart_program or reset_context was dispatched.
C37_OnlyRestartToolsAsStated ==
    pc = "execv" => \E j \in 1..Len(ToolNames(response)) : ToolNames(response)[j] \in RestartTools

\* C37 amended: the process re-executes only in a
\* turn in which some tool result is a JSON object with a truthy restart
\* field, as the results of restart_program and reset_context are; the
\* output of another tool brings the restart about exactly when it is such
\* an object itself, and a turn whose results are all something else goes
\* back to the head of the loop with the file as it was.
C37_OnlyRestartRequests ==
    /\ pc = "execv" =>
          /\ JsonLoads(tool_results[scan_idx].content).kind = "dict"
          /\ JsonLoads(tool_results[scan_idx].content).restart
          /\ \A j \in 1..(scan_idx - 1) : Malformed(tool_results[j].content)
          /\ ToolNames(response)[scan_idx] \notin RestartTools =>
                tool_results[scan_idx].content \in {RestartOnly, ResetPayload}
    /\ (pc = "loop" /\ tool_results # <<>>) =>
          \A j \in 1..Len(tool_results) :
              /\ Malformed(tool_results[j].content)
              /\ ToolNames(response)[j] \notin RestartTools \/ ToolNames(response)[j] \notin Names(AgentTools)

\* the contents read_file returned were a JSON object with restart = true:
\* the conversation was saved and the process re-executes, and neither
\* restart_program nor reset_context was called
C37_Witness ==
    /\ pc = "execv"
    /\ ToolNames(response) = <<"read_file">>
    /\ tool_results[1].content = RestartOnly
    /\ tool_calls = <<"read_file">>
    /\ save_ok
    /\ load_conversation(file) = [some |-> TRUE, val |-> conversation]
\* the step is the error exit: main's handler has caught the exception
ErrorExit == pc # "exited" /\ pc' = "exited" /\ is_error_exit'

\* conversation a is conversation b with at least one turn more
Extends(a, b) == Len(a) > Len(b) /\ SubSeq(a, 1, Len(b)) = b

\* C38: the error exit leaves the file as it is, exit handler included;
\* the file found after it holds what the last save for a restart wrote,
\* or nothing loadable when no such save has been made or what it wrote has
\* been removed since, and a conversation found in it lacks the turns the
\* process has gone through since it resumed from it.
C38_ErrorExitFrame ==
    /\ [][ErrorExit => (file' = file /\ conversation' = conversation /\ exit_code' = 1)]_vars
    /\ []((pc = "exited" /\ is_error_exit) =>
             /\ load_conversation(file) = persisted
             /\ persisted.some => (loaded = persisted /\ Extends(conversation, persisted.val)))

\* a process resumed from the file of a restart read a line at the prompt
\* and then failed in the model invocation: the file is the one the restart
\* wrote, without that line
C38_Witness ==
    /\ pc = "exited"
    /\ is_error_exit
    /\ exit_code = 1
    /\ started_by = "restart"
    /\ persisted.some
    /\ load_conversation(file) = persisted
    /\ conversation = Append(persisted.val, TextTurn("user", HumanText))
====
